---- MODULE Spec2Model ----
(***************************************************************************)
(* The trade store of the trading journal and the HTTP handlers that read  *)
(* and mutate it (server/index.ts over server/storage.ts).  Every handler  *)
(* is cut at its awaits: one action per database statement together with   *)
(* the synchronous code that follows it up to the next await or response.  *)
(* Decimal columns are modelled as integers, timestamps as integers.       *)
(* The ledger page (client/src/pages/master-ledger.tsx) is the record ui:   *)
(* its row computation, sorting and partition are operators over ui, its   *)
(* click handlers and the price refresh are actions.  The statistics of    *)
(* GET /api/stats carry the numbers toFixed(2) rounds in hundredths.       *)
(* The accounts (server/auth.ts) are the record auth: the users table, the *)
(* session of each client, the reset handler cut at its hash, and the      *)
(* current user the browser caches under /api/user.                        *)
(***************************************************************************)
EXTENDS Integers, FiniteSets, Sequences, TLC

\* ------------------------------------------------------------------ bounds
MaxTrades == 3      \* rows ever inserted (the serial id never exceeds it)
MaxQty == 2         \* largest quantity in a create body or a close body
NumProcs == 2       \* close / delete requests that can be in flight at once
MaxCurve == 5       \* closed trades behind the longest equity curve
MaxTokens == 2      \* password reset tokens ever issued
MaxTime == 2        \* ticks of the clock

Procs == 1..NumProcs
Ids == 1..MaxTrades              \* ids a request can name (not yet assigned, live or deleted)

\* ------------------------------------------------------------------ schema
Null == -1000                    \* SQL NULL / JS null in a numeric or id column
NullStr == "NULL"                \* SQL NULL in a text column

TRADE_STATUS == {"OPEN", "CLOSED"}
TRADE_SIDES == {"LONG", "SHORT"}

TradeFields == {"id", "ticker", "entryDate", "exitDate", "buyPrice", "sellPrice",
                "quantity", "status", "type", "side", "strategy", "stopLoss",
                "sector", "fees", "parentTradeId"}

\* Column defaults of the trades table (a column without a default is NULL).
\* entryDate defaults to the database clock, which is not modelled: 0.
ColumnDefaults ==
    [id |-> Null, ticker |-> NullStr, entryDate |-> 0, exitDate |-> Null,
     buyPrice |-> Null, sellPrice |-> Null, quantity |-> Null, status |-> "OPEN",
     type |-> NullStr, side |-> "LONG", strategy |-> NullStr, stopLoss |-> Null,
     sector |-> NullStr, fees |-> 0, parentTradeId |-> Null]

\* Columns declared notNull() without a default: an insert body must carry them.
RequiredOnInsert == {"ticker", "buyPrice", "quantity", "type"}

\* What getTrade / updateTrade return when no row matches.
Undefined == [id |-> Null]

\* JS Number(x) on a column value: Number(null) is 0.
Number(x) == IF x = Null THEN 0 ELSE x

\* insertTradeSchema.parse / insertTradeSchema.partial().parse: the enum columns
\* reject any other string; `required` are the keys that must be present.
ZodTradeOk(body, required) ==
    /\ required \subseteq DOMAIN body
    /\ "status" \in DOMAIN body => body.status \in TRADE_STATUS
    /\ "side" \in DOMAIN body => body.side \in TRADE_SIDES

\* The body schema of the close route: quantity, sellPrice and exitDate are
\* required, fees is optional and defaults to "0".
ZodCloseOk(body) == {"quantity", "sellPrice", "exitDate"} \subseteq DOMAIN body

CloseFees(body) == IF "fees" \in DOMAIN body THEN body.fees ELSE 0

\* the notNull columns in the order the table declares them
RequiredOrder == <<"ticker", "buyPrice", "quantity", "type">>

\* err.errors[0] of the ZodError a trade body raises: the first missing key in
\* schema order, else the first enum column that holds another string
ZodTradeIssue(body, required) ==
    LET missing == required \ DOMAIN body
    IN  IF missing # {}
        THEN [message |-> "Required",
              field |-> RequiredOrder[CHOOSE i \in DOMAIN RequiredOrder :
                            /\ RequiredOrder[i] \in missing
                            /\ \A j \in 1..(i - 1) : RequiredOrder[j] \notin missing]]
        ELSE [message |-> "Invalid enum value",
              field |-> IF "status" \in DOMAIN body /\ body.status \notin TRADE_STATUS
                        THEN "status" ELSE "side"]

NotFound == [message |-> "Trade not found"]

\* ------------------------------------------------------------------ storage
\* The trades table is a function from id to row.

\* The row an insert of `values` produces under serial id n.
InsertedRow(values, n) ==
    [f \in TradeFields |->
        IF f = "id" THEN n
        ELSE IF f \in DOMAIN values THEN values[f] ELSE ColumnDefaults[f]]

StorageGetTrade(s, id) == IF id \in DOMAIN s THEN s[id] ELSE Undefined

StorageCreateTrade(s, n, values) ==
    [i \in DOMAIN s \cup {n} |-> IF i = n THEN InsertedRow(values, n) ELSE s[i]]

UpdatedRow(row, updates) ==
    [f \in TradeFields |-> IF f \in DOMAIN updates THEN updates[f] ELSE row[f]]

StorageUpdateTrade(s, id, updates) ==
    [i \in DOMAIN s |-> IF i = id THEN UpdatedRow(s[i], updates) ELSE s[i]]

StorageDeleteTrade(s, id) == [i \in DOMAIN s \ {id} |-> s[i]]

StorageGetTrades(s) == {s[i] : i \in DOMAIN s}

\* ------------------------------------------------------------------ inputs
CreateBodies ==
    {[ticker |-> "ES", type |-> "FUTURES", side |-> "SHORT", buyPrice |-> 100,
      quantity |-> MaxQty, entryDate |-> 1, fees |-> 1, strategy |-> "Breakout",
      stopLoss |-> 105]}
    \cup
    {[ticker |-> "INFY", type |-> "LONG_TERM_HOLDING", buyPrice |-> 50,
      quantity |-> MaxQty, entryDate |-> 2, sector |-> "IT"]}
    \cup
    {[ticker |-> "ES", type |-> "FUTURES"]}

CloseBodies ==
    {[quantity |-> q, sellPrice |-> 110, exitDate |-> 5] : q \in (-1)..MaxQty}
    \cup
    {[quantity |-> 1, sellPrice |-> 90, exitDate |-> 6, fees |-> 2]}
    \cup
    {[sellPrice |-> 110, exitDate |-> 5]}

\* the bodies of the specification of all id-naming routes: one well-formed and
\* one malformed body per route
CrudCreateBodies ==
    {[ticker |-> "ES", type |-> "FUTURES", side |-> "SHORT", buyPrice |-> 100,
      quantity |-> MaxQty, entryDate |-> 1, fees |-> 1],
     [ticker |-> "ES", type |-> "FUTURES"]}

CrudCloseBodies ==
    {[quantity |-> q, sellPrice |-> 110, exitDate |-> 5] : q \in {1, MaxQty}}
    \cup
    {[sellPrice |-> 110, exitDate |-> 5]}

UpdateBodies ==
    {[stopLoss |-> 105], [status |-> "DONE"]}

\* query strings of GET /api/trades: a parameter that is absent is ""
ListQueries == {[type |-> "", status |-> ""], [type |-> "FUTURES", status |-> "CLOSED"]}

\* ------------------------------------------------------------------ state
VARIABLES
    store,      \* the trades table
    nextId,     \* the serial sequence behind trades.id
    pc,         \* per request slot: where its handler is suspended
    h,          \* per request slot: the handler's locals
    lastResp,   \* the most recent HTTP response
    orig,       \* history: root id -> quantity at creation, kept while only
                \* closes on that root have touched its campaign
    fullClosed, \* history: ids of roots deleted by a full close
    ui,         \* the state of the ledger page in the browser (useState / useQuery)
    auth        \* the users table, the sessions, the clock, the reset requests in
                \* flight, and the browser's cached current user

vars == <<store, nextId, pc, h, lastResp, orig, fullClosed, ui, auth>>

NoLocals == [op |-> "none"]
NoResp == [op |-> "none", id |-> Null, status |-> 0, body |-> Undefined]

\* The ledger page as it mounts: the trades query has no data yet, no price is
\* known, the list is sorted by entry date descending, every filter is "ALL".
NoSort == [key |-> "none", direction |-> "none"]
\* fetchMarketPrices runs when the trades change and every 30 seconds, so a
\* call can start while an earlier one still awaits a lookup
RefreshCalls == 1..2
NoRefresh == [pc |-> "idle", outcomes |-> <<>>]

InitialUi ==
    [trades |-> <<>>, loaded |-> FALSE, marketPrices |-> <<>>,
     manualCmpByTrade |-> <<>>, isRefreshing |-> FALSE,
     sortConfig |-> [key |-> "entryDate", direction |-> "desc"],
     search |-> "", statusFilter |-> "ALL", typeFilter |-> "ALL",
     dateRange |-> [from |-> Null, to |-> Null], pnlFilter |-> "ALL",
     now |-> 9, refresh |-> [c \in RefreshCalls |-> NoRefresh]]

\* The clients that hold a session cookie: the browser that runs the React
\* application, and one other HTTP client.
Browser == 1
Clients == {Browser, Browser + 1}

\* reset requests that can be in flight at once
ResetCalls == 1..2

\* a column or a cached query result that is null, where the values are records
NullHash == [sha256 |-> 0]
NoData == [data |-> "null"]

\* No user is registered, nobody is logged in, the /api/user query of the
\* browser has answered 401 (on401: "returnNull") and the auth page is shown.
\* tokens is history: for each reset token issued its user, its expiry, whether
\* a reset succeeded with it (used) and whether it was used or superseded or
\* the user's password changed since (dead).
InitialAuth ==
    [users |-> <<>>,
     sessions |-> [c \in Clients |-> Null],
     now |-> 0,
     nextToken |-> 1,
     isPasswordResetEnabled |-> TRUE,
     reset |-> [r \in ResetCalls |-> [pc |-> "idle"]],
     cache |-> NoData,
     location |-> "/auth",
     tokens |-> <<>>]

Init ==
    /\ store = <<>>
    /\ nextId = 1
    /\ pc = [p \in Procs |-> "idle"]
    /\ h = [p \in Procs |-> NoLocals]
    /\ lastResp = NoResp
    /\ orig = <<>>
    /\ fullClosed = {}
    /\ auth = InitialAuth
    /\ ui = InitialUi

Quiescent == \A p \in Procs : pc[p] = "idle"

\* Request slots are interchangeable: a new request takes the lowest free one.
FreeSlot(p) == pc[p] = "idle" /\ \A q \in Procs : q < p => pc[q] # "idle"

Respond(op, id, status, body) ==
    lastResp' = [op |-> op, id |-> id, status |-> status, body |-> body]

\* history bookkeeping: forget the campaigns a non-close mutation of `ids` touches
Forget(f, ids) == [i \in DOMAIN f \ ids |-> f[i]]

\* the row id and, when the row exists, the campaign root it points at
Touched(s, id) == {id} \cup (IF id \in DOMAIN s THEN {s[id].parentTradeId} ELSE {})

\* ------------------------------------------------------------------ campaign
RECURSIVE SumOver(_, _)
\* rows.reduce((acc, c) => acc + F(c), 0) over a set of rows, F given as a function
SumOver(rows, F) ==
    IF rows = {} THEN 0
    ELSE LET c == CHOOSE r \in rows : TRUE
         IN F[c] + SumOver(rows \ {c}, F)

\* The realised P&L the campaign route attributes to one child row.
CampaignPnl(c) ==
    (Number(c.sellPrice) - Number(c.buyPrice)) * Number(c.quantity) - Number(c.fees)

\* The EXIT event of the timeline for child c, tagged with the child's id (the
\* response lists the events by date and carries no id).
ExitEvent(c) ==
    [id |-> c.id,
     date |-> IF c.exitDate # Null THEN c.exitDate ELSE c.entryDate,
     qty |-> Number(c.quantity),
     price |-> Number(c.sellPrice),
     pnl |-> (Number(c.sellPrice) - Number(c.buyPrice)) * Number(c.quantity) - Number(c.fees)]

\* trade.parentTradeId || trade.id  (null and 0 are falsy)
ParentIdOf(trade) ==
    IF trade.parentTradeId = Null \/ trade.parentTradeId = 0
    THEN trade.id ELSE trade.parentTradeId

ChildrenOf(allTrades, parentId) == {t \in allTrades : t.parentTradeId = parentId}

\* GET /api/trades/:id/campaign computed over the table s: status and body.
Campaign(s, id) ==
    LET allTrades == StorageGetTrades(s)
        found == {t \in allTrades : t.id = id}
    IN  IF found = {} THEN [status |-> 404, message |-> "Trade not found"]
        ELSE
        LET trade == CHOOSE t \in found : TRUE
            parentId == ParentIdOf(trade)
            mains == {t \in allTrades : t.id = parentId}
        IN  IF mains = {} THEN [status |-> 404, message |-> "Parent trade not found"]
            ELSE
            LET mainTrade == CHOOSE t \in mains : TRUE
                children == ChildrenOf(allTrades, parentId)
                soldQty == SumOver(children, [c \in children |-> Number(c.quantity)])
                currentQty == Number(mainTrade.quantity)
            IN  [status |-> 200,
                 main_ticker |-> mainTrade.ticker,
                 original_quantity |-> soldQty + currentQty,
                 total_realized_pnl |->
                     SumOver(children, [c \in children |-> CampaignPnl(c)]),
                 exits |-> {ExitEvent(c) : c \in children},
                 holding |-> currentQty > 0]

\* ------------------------------------------------------------------ handlers
\* `serial` is TRUE when the deployment runs one mutating request at a time.
MayStart(serial) == serial => Quiescent

\* Inserts still owed by close handlers that have read but not yet inserted.
PendingInserts == Cardinality({p \in Procs : pc[p] = "createTrade"})

\* POST /api/trades
CreateTrade(body, serial) ==
    /\ MayStart(serial)
    /\ IF ~ZodTradeOk(body, RequiredOnInsert)
       THEN /\ Respond("create", Null, 400, ZodTradeIssue(body, RequiredOnInsert))
            /\ UNCHANGED <<store, nextId, orig>>
       ELSE LET row == InsertedRow(body, nextId)
            IN  /\ nextId + PendingInserts <= MaxTrades
                /\ store' = StorageCreateTrade(store, nextId, body)
                /\ nextId' = nextId + 1
                /\ Respond("create", nextId, 201, row)
                /\ orig' = IF row.parentTradeId = Null
                           THEN [i \in DOMAIN orig \cup {nextId} |->
                                    IF i = nextId THEN row.quantity ELSE orig[i]]
                           ELSE Forget(orig, {row.parentTradeId})
    /\ UNCHANGED <<pc, h, fullClosed, ui, auth>>

\* PUT /api/trades/:id
UpdateTrade(id, body, serial) ==
    /\ MayStart(serial)
    /\ IF ~ZodTradeOk(body, {})
       THEN /\ Respond("update", id, 400, ZodTradeIssue(body, {}))
            /\ UNCHANGED <<store, orig>>
       ELSE IF StorageGetTrade(store, id) = Undefined
       THEN /\ Respond("update", id, 404, NotFound)
            /\ UNCHANGED <<store, orig>>
       ELSE /\ store' = StorageUpdateTrade(store, id, body)
            /\ Respond("update", id, 200, store'[id])
            /\ orig' = Forget(orig, Touched(store, id))
    /\ UNCHANGED <<nextId, pc, h, fullClosed, ui, auth>>

\* mutant: the delete route does not look the trade up first
DeleteGetTradeUnchecked(p, id, serial) ==
    /\ FreeSlot(p)
    /\ MayStart(serial)
    /\ pc' = [pc EXCEPT ![p] = "deleteOnly"]
    /\ h' = [h EXCEPT ![p] = [op |-> "delete", id |-> id]]
    /\ UNCHANGED <<store, nextId, lastResp, orig, fullClosed, ui, auth>>

\* DELETE /api/trades/:id, up to the await of deleteTrade
DeleteGetTrade(p, id, serial) ==
    /\ FreeSlot(p)
    /\ MayStart(serial)
    /\ IF StorageGetTrade(store, id) = Undefined
       THEN /\ Respond("delete", id, 404, NotFound)
            /\ UNCHANGED <<pc, h>>
       ELSE /\ pc' = [pc EXCEPT ![p] = "deleteOnly"]
            /\ h' = [h EXCEPT ![p] = [op |-> "delete", id |-> id]]
            /\ UNCHANGED lastResp
    /\ UNCHANGED <<store, nextId, orig, fullClosed, ui, auth>>

\* DELETE /api/trades/:id, the delete statement and the 204
DeleteDeleteTrade(p) ==
    /\ pc[p] = "deleteOnly"
    /\ store' = StorageDeleteTrade(store, h[p].id)
    /\ Respond("delete", h[p].id, 204, Undefined)
    /\ orig' = Forget(orig, Touched(store, h[p].id))
    /\ pc' = [pc EXCEPT ![p] = "idle"]
    /\ h' = [h EXCEPT ![p] = NoLocals]
    /\ UNCHANGED <<nextId, fullClosed, ui, auth>>

\* mutant: the closed record carries only the fees of the close request
ClosedValuesOwnFees(originalTrade, id, body) ==
    [f \in TradeFields \ {"id"} |->
        CASE f = "quantity" -> body.quantity
          [] f = "sellPrice" -> body.sellPrice
          [] f = "exitDate" -> body.exitDate
          [] f = "status" -> "CLOSED"
          [] f = "fees" -> CloseFees(body)
          [] f = "parentTradeId" -> id
          [] OTHER -> originalTrade[f]]

\* The values the close route inserts: the original row spread, id dropped,
\* quantity / sellPrice / exitDate / status / fees / parentTradeId overridden.
ClosedValues(originalTrade, id, body) ==
    [f \in TradeFields \ {"id"} |->
        CASE f = "quantity" -> body.quantity
          [] f = "sellPrice" -> body.sellPrice
          [] f = "exitDate" -> body.exitDate
          [] f = "status" -> "CLOSED"
          [] f = "fees" -> Number(originalTrade.fees) + CloseFees(body)
          [] f = "parentTradeId" -> id
          [] OTHER -> originalTrade[f]]

\* mutant: the quantity check is missing
SellsTooMuchUnchecked(sellQty, originalQty) == FALSE

\* sellQty > originalQty: the only quantity check of the close route
SellsTooMuch(sellQty, originalQty) == sellQty > originalQty

\* mutant: the body's string is compared with === to a number, never equal
IsFullSellStringVsNumber(sellQty, originalQty) == FALSE

\* sellQty === originalQty: the full-close branch
IsFullSell(sellQty, originalQty) == sellQty = originalQty

\* mutant: the original quantity is written back unreduced
RemainingQtyUnreduced(originalQty, sellQty) == originalQty

\* mutant: the subtraction is the wrong way round
RemainingQtySwapped(originalQty, sellQty) == sellQty - originalQty

\* The quantity the partial-close branch writes back to the original row.
RemainingQty(originalQty, sellQty) == originalQty - sellQty

\* POST /api/trades/:id/close: body parse, getTrade and the two early returns
CloseGetTrade(p, id, body, serial) ==
    /\ FreeSlot(p)
    /\ MayStart(serial)
    /\ IF ~ZodCloseOk(body)
       THEN /\ Respond("close", id, 400, [message |-> "Required"])
            /\ UNCHANGED <<pc, h>>
       ELSE LET originalTrade == StorageGetTrade(store, id)
            IN  IF originalTrade = Undefined
                THEN /\ Respond("close", id, 404, NotFound)
                     /\ UNCHANGED <<pc, h>>
                ELSE IF SellsTooMuch(body.quantity, Number(originalTrade.quantity))
                THEN /\ Respond("close", id, 400,
                                 [message |-> "Cannot sell more than owned quantity"])
                     /\ UNCHANGED <<pc, h>>
                ELSE /\ nextId + PendingInserts < MaxTrades + 1
                     /\ pc' = [pc EXCEPT ![p] = "createTrade"]
                     /\ h' = [h EXCEPT ![p] =
                                [op |-> "close", id |-> id, body |-> body,
                                 originalTrade |-> originalTrade,
                                 sellQty |-> body.quantity,
                                 originalQty |-> Number(originalTrade.quantity),
                                 pre |-> store]]
                     /\ UNCHANGED lastResp
    /\ UNCHANGED <<store, nextId, orig, fullClosed, ui, auth>>

\* the insert of the closed record, then the choice of the second write
CloseCreateTrade(p) ==
    /\ pc[p] = "createTrade"
    /\ store' = StorageCreateTrade(store, nextId,
                                   ClosedValues(h[p].originalTrade, h[p].id, h[p].body))
    /\ nextId' = nextId + 1
    /\ h' = [h EXCEPT ![p] = [i \in DOMAIN h[p] \cup {"closedTrade"} |->
                                IF i = "closedTrade" THEN store'[nextId] ELSE h[p][i]]]
    /\ pc' = [pc EXCEPT ![p] = IF IsFullSell(h[p].sellQty, h[p].originalQty)
                               THEN "deleteTrade" ELSE "updateTrade"]
    /\ orig' = IF h[p].originalTrade.parentTradeId = Null
               THEN orig ELSE Forget(orig, {h[p].originalTrade.parentTradeId})
    /\ UNCHANGED <<lastResp, fullClosed, ui, auth>>

\* full sell: delete the original row, answer with the closed record
CloseDeleteTrade(p) ==
    /\ pc[p] = "deleteTrade"
    /\ store' = StorageDeleteTrade(store, h[p].id)
    /\ Respond("close", h[p].id, 200, h[p].closedTrade)
    /\ fullClosed' = IF h[p].originalTrade.parentTradeId = Null
                     THEN fullClosed \cup {h[p].id} ELSE fullClosed
    /\ pc' = [pc EXCEPT ![p] = "idle"]
    /\ h' = [h EXCEPT ![p] = NoLocals]
    /\ UNCHANGED <<nextId, orig, ui, auth>>

\* partial sell: write the reduced quantity, answer with the closed record
CloseUpdateTrade(p) ==
    /\ pc[p] = "updateTrade"
    /\ store' = StorageUpdateTrade(store, h[p].id,
                    [quantity |-> RemainingQty(h[p].originalQty, h[p].sellQty)])
    /\ Respond("close", h[p].id, 200, h[p].closedTrade)
    /\ pc' = [pc EXCEPT ![p] = "idle"]
    /\ h' = [h EXCEPT ![p] = NoLocals]
    /\ UNCHANGED <<nextId, orig, fullClosed, ui, auth>>

\* the second write throws: the catch block answers 500, nothing is undone
CloseWriteFails(p) ==
    /\ pc[p] \in {"deleteTrade", "updateTrade"}
    /\ Respond("close", h[p].id, 500, [message |-> "Internal server error"])
    /\ pc' = [pc EXCEPT ![p] = "idle"]
    /\ h' = [h EXCEPT ![p] = NoLocals]
    /\ UNCHANGED <<store, nextId, orig, fullClosed, ui, auth>>

\* ------------------------------------------------------------------ readers
\* GET /api/trades/:id
GetTrade(id) ==
    /\ LET trade == StorageGetTrade(store, id)
       IN  IF trade = Undefined
           THEN Respond("get", id, 404, NotFound)
           ELSE Respond("get", id, 200, trade)
    /\ UNCHANGED <<store, nextId, pc, h, orig, fullClosed, ui, auth>>

\* filtered = allTrades, narrowed by each query parameter that is non-empty
ListFilter(allTrades, type, status) ==
    {t \in allTrades : /\ (type # "" => t.type = type)
                       /\ (status # "" => t.status = status)}

\* GET /api/trades
ListTrades(type, status) ==
    /\ Respond("list", Null, 200, ListFilter(StorageGetTrades(store), type, status))
    /\ UNCHANGED <<store, nextId, pc, h, orig, fullClosed, ui, auth>>

\* GET /api/trades/:id/campaign
GetCampaign(id) ==
    /\ LET c == Campaign(store, id)
       IN  Respond("campaign", id, c.status, c)
    /\ UNCHANGED <<store, nextId, pc, h, orig, fullClosed, ui, auth>>

\* ------------------------------------------------------------------ specifications
Closes(serial, bodies) ==
    \/ \E p \in Procs, id \in Ids, body \in bodies : CloseGetTrade(p, id, body, serial)
    \/ \E p \in Procs : CloseCreateTrade(p)
    \/ \E p \in Procs : CloseDeleteTrade(p)
    \/ \E p \in Procs : CloseUpdateTrade(p)

\* Creates and closes run one at a time, reads at any moment between their
\* statements, no database failure.
Next ==
    \/ \E body \in CreateBodies : CreateTrade(body, TRUE)
    \/ Closes(TRUE, CloseBodies)
    \/ \E q \in ListQueries : ListTrades(q.type, q.status)
    \/ \E id \in Ids : GetCampaign(id)
Spec == Init /\ [][Next]_vars

\* Close requests interleave at their awaits.
NextConc ==
    \/ \E body \in CreateBodies : CreateTrade(body, FALSE)
    \/ Closes(FALSE, CloseBodies)
    \/ \E id \in Ids : GetCampaign(id)
SpecConc == Init /\ [][NextConc]_vars

\* One mutating request at a time; the second write of a close may throw.
NextFail ==
    \/ \E body \in CreateBodies : CreateTrade(body, TRUE)
    \/ Closes(TRUE, CloseBodies)
    \/ \E p \in Procs : CloseWriteFails(p)
    \/ \E id \in Ids : GetCampaign(id)
SpecFail == Init /\ [][NextFail]_vars

\* Every route that names a trade id, one mutating request at a time.
NextCrud ==
    \/ \E body \in CrudCreateBodies : CreateTrade(body, TRUE)
    \/ \E id \in Ids, body \in UpdateBodies : UpdateTrade(id, body, TRUE)
    \/ \E p \in Procs, id \in Ids : DeleteGetTrade(p, id, TRUE)
    \/ \E p \in Procs : DeleteDeleteTrade(p)
    \/ Closes(TRUE, CrudCloseBodies)
    \/ \E id \in Ids : GetTrade(id)
    \/ \E id \in Ids : GetCampaign(id)
SpecCrud == Init /\ [][NextCrud]_vars

\* ------------------------------------------------------------------ ledger page
\* client/src/pages/master-ledger.tsx.  Every useMemo of the page is a function
\* of the page state u; arrays are sequences.  Time is counted in days.

\* String.prototype.toLowerCase on the strings the model uses
ToLowerCase(str) ==
    CASE str = "ES" -> "es"
      [] str = "INFY" -> "infy"
      [] str = "Breakout" -> "breakout"
      [] OTHER -> str

\* a < b on two lower-cased strings of the model (code-unit order)
StringLess(a, b) ==
    LET rank == [x \in {"-", "breakout", "closed", "es", "infy", "open"} |->
                    CASE x = "-" -> 1 [] x = "breakout" -> 2 [] x = "closed" -> 3
                      [] x = "es" -> 4 [] x = "infy" -> 5 [] x = "open" -> 6]
    IN  rank[a] < rank[b]

\* [...array].sort(compare) on a short array, as the engine runs it: the
\* leading run (ascending, or strictly descending and then reversed) is found
\* with compare(next, previous), and each later element is placed in the sorted
\* front by binary insertion with compare(pivot, element).  With a consistent
\* comparator this is the stable sort.  The operators work on positions of
\* seq; compare[i][j] is the comparator's answer for seq[i], seq[j].
RECURSIVE RunLength(_, _, _)
\* the length of the run that starts at position 1, given that it reaches k
RunLength(compare, descending, k) ==
    IF k < Len(compare) /\ ((compare[k + 1][k] < 0) = descending)
    THEN RunLength(compare, descending, k + 1)
    ELSE k

RECURSIVE InsertionPoint(_, _, _, _, _)
\* binary search, 0-based, for the place of pivot in the sorted front
InsertionPoint(compare, front, pivot, left, right) ==
    IF left >= right THEN left
    ELSE LET mid == left + ((right - left) \div 2)
         IN  IF compare[pivot][front[mid + 1]] < 0
             THEN InsertionPoint(compare, front, pivot, left, mid)
             ELSE InsertionPoint(compare, front, pivot, mid + 1, right)

RECURSIVE BinaryInsertionSort(_, _, _)
\* the sorted front grown by the positions pivot..n
BinaryInsertionSort(compare, front, pivot) ==
    IF pivot > Len(compare) THEN front
    ELSE LET at == InsertionPoint(compare, front, pivot, 0, Len(front))
         IN  BinaryInsertionSort(compare,
                 SubSeq(front, 1, at) \o <<pivot>> \o SubSeq(front, at + 1, Len(front)),
                 pivot + 1)

StableSort(seq, compare) ==
    LET n == Len(seq)
        descending == compare[2][1] < 0
        run == RunLength(compare, descending, 2)
        front == [k \in 1..run |-> IF descending THEN run + 1 - k ELSE k]
        order == BinaryInsertionSort(compare, front, run + 1)
    IN  IF n < 2 THEN seq ELSE [k \in 1..n |-> seq[order[k]]]

\* activeTrades: (trades || []) without the long-term holdings
activeTrades(u) == SelectSeq(u.trades, LAMBDA t : t.type # "LONG_TERM_HOLDING")

\* the P&L the profit / loss filter looks at (closed trades only)
FilterPnl(t) ==
    IF t.side = "SHORT"
    THEN (Number(t.buyPrice) - Number(t.sellPrice)) * Number(t.quantity) - Number(t.fees)
    ELSE (Number(t.sellPrice) - Number(t.buyPrice)) * Number(t.quantity) - Number(t.fees)

\* ticker.toLowerCase().includes(search.toLowerCase()); a non-empty search text
\* is modelled only when it spells a whole ticker
MatchesSearch(t, search) ==
    search = "" \/ ToLowerCase(t.ticker) = ToLowerCase(search)

MatchesPnl(t, pnlFilter) ==
    IF pnlFilter # "ALL" /\ t.status = "CLOSED"
    THEN CASE pnlFilter = "PROFIT" -> FilterPnl(t) > 0
           [] pnlFilter = "LOSS" -> FilterPnl(t) < 0
           [] OTHER -> TRUE
    ELSE TRUE

filteredTrades(u) ==
    SelectSeq(activeTrades(u), LAMBDA t :
        /\ MatchesSearch(t, u.search)
        /\ (u.statusFilter = "ALL" \/ t.status = u.statusFilter)
        /\ (u.typeFilter = "ALL" \/ t.type = u.typeFilter)
        /\ (u.dateRange.from = Null \/ t.entryDate >= u.dateRange.from)
        /\ (u.dateRange.to = Null \/ t.entryDate <= u.dateRange.to)
        /\ MatchesPnl(t, u.pnlFilter))

\* a - b of the two entry dates: the comparator of the chronological pass
ByEntryDate(a, b) == a.entryDate - b.entryDate

\* mutant: the running total is accumulated in the direction of the display sort
\* the results of the comparator on every pair of elements of seq
EntryDateOrder(seq) ==
    [i \in DOMAIN seq |-> [j \in DOMAIN seq |-> ByEntryDate(seq[i], seq[j])]]

chronologicalDataInDisplayDirection(u) ==
    IF u.sortConfig.direction = "asc"
    THEN StableSort(filteredTrades(u), EntryDateOrder(filteredTrades(u)))
    ELSE filteredTrades(u)

chronologicalData(u) == StableSort(filteredTrades(u), EntryDateOrder(filteredTrades(u)))

\* JS truthiness of a number or null: null, undefined and 0 are falsy
Truthy(x) == x # Null /\ x # 0

\* a quotient the page keeps unrounded: numerator over denominator; the null
\* of such a column is the quotient with denominator 0
Ratio(num, den) == [num |-> num, den |-> den]
NullRatio == Ratio(0, 0)

Abs(x) == IF x < 0 THEN -x ELSE x

\* livePrice ?? manualCmp ?? null
\* mutant: the manual price wins over the live price
CmpValueManualFirst(trade, u) ==
    IF trade.id \in DOMAIN u.manualCmpByTrade THEN u.manualCmpByTrade[trade.id]
    ELSE IF trade.ticker \in DOMAIN u.marketPrices THEN u.marketPrices[trade.ticker]
    ELSE Null

CmpValue(trade, u) ==
    IF trade.ticker \in DOMAIN u.marketPrices THEN u.marketPrices[trade.ticker]
    ELSE IF trade.id \in DOMAIN u.manualCmpByTrade THEN u.manualCmpByTrade[trade.id]
    ELSE Null

\* trade.status === 'OPEN' ? cmpValue : exitPrice.  A decimal column arrives as
\* a string, so `trade.sellPrice ?` is false for NULL only.
CurrentPrice(trade, u) ==
    IF trade.status = "OPEN" THEN CmpValue(trade, u) ELSE trade.sellPrice

GrossPnl(trade, currentPrice) ==
    IF Truthy(currentPrice)
    THEN IF trade.side = "SHORT"
         THEN (Number(trade.buyPrice) - currentPrice) * Number(trade.quantity)
         ELSE (currentPrice - Number(trade.buyPrice)) * Number(trade.quantity)
    ELSE Null

NetProfit(grossPnl, fees) == IF grossPnl # Null THEN grossPnl - fees ELSE Null

\* trade.sellPrice ? Number(trade.sellPrice) : null
ExitPrice(trade) == trade.sellPrice

\* Everything the chronological pass computes for one trade except its number
\* and the running total.  Dates stay timestamps: their dd/MM/yyyy formatting
\* is display only, and the notes column is not part of the model.
LedgerRow(trade, u) ==
    LET entryPrice == Number(trade.buyPrice)
        quantity == Number(trade.quantity)
        stopLoss == trade.stopLoss
        fees == Number(trade.fees)
        cmpValue == CmpValue(trade, u)
        currentPrice == CurrentPrice(trade, u)
        rpt == IF stopLoss # Null THEN Abs((entryPrice - stopLoss) * quantity) ELSE Null
        grossPnl == GrossPnl(trade, currentPrice)
        netProfit == NetProfit(grossPnl, fees)
        entryValue == entryPrice * quantity
        exitDate == IF trade.exitDate # Null THEN trade.exitDate
                    ELSE IF trade.status = "OPEN" THEN u.now ELSE Null
    IN  [entryDateObj |-> trade.entryDate,
         strategy |-> IF trade.strategy = NullStr THEN "-" ELSE trade.strategy,
         stock |-> trade.ticker,
         qty |-> quantity,
         entry |-> entryPrice,
         sl |-> stopLoss,
         slPercent |-> IF stopLoss # Null /\ Truthy(entryPrice)
                       THEN Ratio((entryPrice - stopLoss) * 100, entryPrice) ELSE NullRatio,
         rpt |-> rpt,
         exitDate |-> trade.exitDate,
         exitQty |-> IF trade.status = "CLOSED" THEN quantity ELSE Null,
         exitPrice |-> ExitPrice(trade),
         cmp |-> cmpValue,
         tradeGainPercent |-> IF netProfit # Null /\ entryValue > 0
                              THEN Ratio(netProfit * 100, entryValue) ELSE NullRatio,
         rMultiple |-> IF netProfit # Null /\ Truthy(rpt) /\ rpt > 0
                       THEN Ratio(netProfit, rpt) ELSE NullRatio,
         holdingDays |-> IF exitDate # Null THEN exitDate - trade.entryDate ELSE Null,
         grossProfit |-> grossPnl,
         brokerage |-> fees,
         netProfit |-> netProfit,
         status |-> trade.status,
         type |-> trade.type,
         trade |-> trade]

\* mutant: the running total is not carried from row to row
RunningAccountValueOfRowAlone(rows, k) ==
    IF k = 0 THEN 0
    ELSE IF rows[k].netProfit # Null THEN rows[k].netProfit ELSE 0

RECURSIVE RunningAccountValue(_, _)
\* runningAccountValue after the first k rows of the chronological pass
RunningAccountValue(rows, k) ==
    IF k = 0 THEN 0
    ELSE RunningAccountValue(rows, k - 1)
         + (IF rows[k].netProfit # Null THEN rows[k].netProfit ELSE 0)

\* initialData: one row per filtered trade, in ascending entry date order
initialData(u) ==
    LET chron == chronologicalData(u)
        rows == [k \in 1..Len(chron) |-> LedgerRow(chron[k], u)]
    IN  [k \in 1..Len(chron) |->
            LET row == rows[k]
                accountValue == RunningAccountValue(rows, k)
            IN  [f \in DOMAIN row \cup {"no", "accountValue"} |->
                    CASE f = "no" -> k
                      [] f = "accountValue" -> accountValue
                      [] OTHER -> row[f]]]

\* childTrades: the filtered trades with a truthy parentTradeId
childTrades(u) == SelectSeq(filteredTrades(u), LAMBDA t : Truthy(t.parentTradeId))

\* childrenByParentId.get(pid) ?? []: the children of pid in filtered order
childrenByParentId(u, pid) == SelectSeq(childTrades(u), LAMBDA c : c.parentTradeId = pid)

existingTradeIds(u) ==
    LET filtered == filteredTrades(u)
    IN  {filtered[i].id : i \in DOMAIN filtered}

\* mainInitialData: the rows without a parent in the filtered set
mainInitialData(u) ==
    LET ids == existingTradeIds(u)
    IN  SelectSeq(initialData(u), LAMBDA r :
            ~Truthy(r.trade.parentTradeId) \/ r.trade.parentTradeId \notin ids)

\* the columns whose header calls handleSort
SortKeys == {"no", "stock", "entryDate", "qty", "entry", "rpt", "exitPrice", "cmp",
             "tradeGainPercent", "rMultiple", "holdingDays", "grossProfit",
             "accountValue", "netProfit"}

\* a[sortConfig.key], the entry date as a timestamp
SortValue(r, key) == IF key = "entryDate" THEN r.entryDateObj ELSE r[key]

RatioKeys == {"tradeGainPercent", "rMultiple"}

\* aVal === null || aVal === undefined
ValueIsNull(aVal, key) ==
    CASE key = "stock" -> FALSE
      [] key \in RatioKeys -> aVal = NullRatio
      [] OTHER -> aVal = Null

\* aVal === bVal
ValueSame(aVal, bVal, key) ==
    CASE key \in RatioKeys ->
            IF aVal = NullRatio \/ bVal = NullRatio THEN aVal = bVal
            ELSE aVal.num * bVal.den = bVal.num * aVal.den
      [] OTHER -> aVal = bVal

\* aVal < bVal for two present values of one column
ValueLess(aVal, bVal, key) ==
    CASE key = "stock" -> StringLess(ToLowerCase(aVal), ToLowerCase(bVal))
      [] key \in RatioKeys -> aVal.num * bVal.den < bVal.num * aVal.den
      [] OTHER -> aVal < bVal

\* mutant: a null value is placed by the direction like any other value
SortCompareNullsByDirection(a, b, sortConfig) ==
    LET aVal == SortValue(a, sortConfig.key)
        bVal == SortValue(b, sortConfig.key)
        comparison == IF ValueIsNull(aVal, sortConfig.key) THEN -1
                      ELSE IF ValueIsNull(bVal, sortConfig.key) THEN 1
                      ELSE IF ValueLess(aVal, bVal, sortConfig.key) THEN -1 ELSE 1
    IN  IF ValueSame(aVal, bVal, sortConfig.key) THEN 0
        ELSE IF sortConfig.direction = "asc" THEN comparison ELSE -comparison

\* the comparator of the display sort
SortCompare(a, b, sortConfig) ==
    LET aVal == SortValue(a, sortConfig.key)
        bVal == SortValue(b, sortConfig.key)
        comparison == IF ValueLess(aVal, bVal, sortConfig.key) THEN -1 ELSE 1
    IN  IF ValueSame(aVal, bVal, sortConfig.key) THEN 0
        ELSE IF ValueIsNull(aVal, sortConfig.key) THEN 1
        ELSE IF ValueIsNull(bVal, sortConfig.key) THEN -1
        ELSE IF sortConfig.direction = "asc" THEN comparison ELSE -comparison

\* spreadsheetData: the main rows in display order
spreadsheetData(u) ==
    LET main == mainInitialData(u)
    IN  IF u.sortConfig = NoSort THEN main
        ELSE StableSort(main, [i \in DOMAIN main |-> [j \in DOMAIN main |->
                                  SortCompare(main[i], main[j], u.sortConfig)]])

\* totalNetPnl: initialData.reduce((sum, t) => sum + (t.netProfit || 0), 0)
RECURSIVE TableBodyRows(_, _)
\* The trade ids of the rows the table body holds for the first k main rows,
\* every parent expanded: each main row followed by the rows of
\* childrenByParentId.get(mainRow.trade.id).
TableBodyRows(u, k) ==
    IF k = 0 THEN <<>>
    ELSE LET mainRow == spreadsheetData(u)[k]
             children == childrenByParentId(u, mainRow.trade.id)
         IN  TableBodyRows(u, k - 1) \o <<mainRow.trade.id>>
                 \o [i \in DOMAIN children |-> children[i].id]

RECURSIVE SumNetProfit(_, _)
SumNetProfit(rows, k) ==
    IF k = 0 THEN 0
    ELSE SumNetProfit(rows, k - 1)
         + (IF Truthy(rows[k].netProfit) THEN rows[k].netProfit ELSE 0)

totalNetPnl(u) == SumNetProfit(initialData(u), Len(initialData(u)))

\* ------------------------------------------------------------------ ledger inputs
\* Bodies POST /api/trades accepts for the row that will get id n: a closed
\* long that nets 95, an open short, and a closed short that nets 95 and points
\* at an earlier row.  A root is entered on day n, a closed record carries the
\* entry date of the row it points at, as the close route copies it.
LedgerBodies(n) ==
    {[ticker |-> "INFY", type |-> "EQUITY_INTRADAY", side |-> "LONG", status |-> "CLOSED",
      buyPrice |-> 100, sellPrice |-> 110, quantity |-> 10, fees |-> 5,
      entryDate |-> n, exitDate |-> n + 1],
     [ticker |-> "ES", type |-> "FUTURES", side |-> "SHORT", buyPrice |-> 100,
      quantity |-> MaxQty, fees |-> 1, entryDate |-> n, stopLoss |-> 105]}
    \cup
    {[ticker |-> "ES", type |-> "FUTURES", side |-> "SHORT", status |-> "CLOSED",
      buyPrice |-> 100, sellPrice |-> 90, quantity |-> 10, fees |-> 5,
      entryDate |-> parent, exitDate |-> n, strategy |-> "Breakout", stopLoss |-> 105,
      parentTradeId |-> parent] : parent \in 1..(n - 1)}

RECURSIVE LedgerTables(_)
\* the tables n accepted creates can leave behind
LedgerTables(n) ==
    IF n = 0 THEN {<<>>}
    ELSE {StorageCreateTrade(s, n, body) : s \in LedgerTables(n - 1), body \in LedgerBodies(n)}

\* live prices an earlier refresh may have stored
LedgerPrices == {<<>>, [symbol \in {"ES"} |-> 95]}

\* what is typed into an "Add CMP" box, and the trade whose box is used
ManualCmps == {0, 90}
ManualCmpIds == {1}

\* the column headers and filter choices that are clicked
ClickedSortKeys == {"netProfit"}
StatusFilters == {"ALL", "CLOSED"}
PnlFilters == {"ALL", "LOSS"}

\* ------------------------------------------------------------------ ledger handlers
RECURSIVE DescLists(_)
\* the lists that hold each of `rows` once, latest entry date first
DescLists(rows) ==
    IF rows = {} THEN {<<>>}
    ELSE UNION {{<<r>> \o l : l \in DescLists(rows \ {r})} :
                    r \in {x \in rows : \A y \in rows : x.entryDate >= y.entryDate}}

\* storage.getTrades(): ORDER BY entry_date DESC, rows of one date in any order
TradeLists(s) == DescLists(StorageGetTrades(s))

\* useTrades(): the query delivers the list
FetchTrades ==
    /\ \E l \in TradeLists(store) : ui' = [ui EXCEPT !.trades = l, !.loaded = TRUE]
    /\ UNCHANGED <<store, nextId, pc, h, lastResp, orig, fullClosed, auth>>

\* handleSort(key): the same column flips the direction, another column starts desc
handleSort(key) ==
    /\ ui' = [ui EXCEPT !.sortConfig =
                IF ui.sortConfig.key = key /\ ui.sortConfig.direction = "desc"
                THEN [key |-> key, direction |-> "asc"]
                ELSE [key |-> key, direction |-> "desc"]]
    /\ UNCHANGED <<store, nextId, pc, h, lastResp, orig, fullClosed, auth>>

setStatusFilter(value) ==
    /\ ui' = [ui EXCEPT !.statusFilter = value]
    /\ UNCHANGED <<store, nextId, pc, h, lastResp, orig, fullClosed, auth>>

setPnlFilter(value) ==
    /\ ui' = [ui EXCEPT !.pnlFilter = value]
    /\ UNCHANGED <<store, nextId, pc, h, lastResp, orig, fullClosed, auth>>

\* the "Add CMP" box of an open row without a price: onChange with a number
setManualCmpByTrade(id, value) ==
    /\ \E k \in DOMAIN filteredTrades(ui) :
          LET trade == filteredTrades(ui)[k]
          IN  trade.id = id /\ trade.status = "OPEN" /\ CmpValue(trade, ui) = Null
    /\ ui' = [ui EXCEPT !.manualCmpByTrade =
                [i \in DOMAIN ui.manualCmpByTrade \cup {id} |->
                    IF i = id THEN value ELSE ui.manualCmpByTrade[i]]]
    /\ UNCHANGED <<store, nextId, pc, h, lastResp, orig, fullClosed, auth>>

\* The ledger page, loaded, over a table that creates have filled and prices a
\* refresh has stored.
InitLedger ==
    /\ \E n \in 0..MaxTrades : store \in LedgerTables(n) /\ nextId = n + 1
    /\ pc = [p \in Procs |-> "idle"]
    /\ h = [p \in Procs |-> NoLocals]
    /\ lastResp = NoResp
    /\ orig = <<>>
    /\ fullClosed = {}
    /\ auth = InitialAuth
    /\ \E prices \in LedgerPrices, l \in TradeLists(store) :
          ui = [InitialUi EXCEPT !.marketPrices = prices, !.trades = l, !.loaded = TRUE]

NextLedger ==
    \/ FetchTrades
    \/ \E key \in ClickedSortKeys : handleSort(key)
    \/ \E value \in StatusFilters : setStatusFilter(value)
    \/ \E value \in PnlFilters : setPnlFilter(value)
    \/ \E id \in ManualCmpIds, value \in ManualCmps : setManualCmpByTrade(id, value)
SpecLedger == InitLedger /\ [][NextLedger]_vars

\* ------------------------------------------------------------------ price refresh
\* fetchMarketPrices.  ui.refresh[c] holds the locals of call c
\* (uniqueSymbols, the loop position, newPrices) and, as history, the outcome
\* of each lookup of the call that last ran as c.  A stored price is the price field of
\* the MarketPrice object.

RECURSIVE UniqueSymbols(_)
\* Array.from(new Set(tickers)): each ticker once, in order of first occurrence
UniqueSymbols(tickers) ==
    IF tickers = <<>> THEN <<>>
    ELSE LET front == UniqueSymbols(SubSeq(tickers, 1, Len(tickers) - 1))
             last == tickers[Len(tickers)]
         IN  IF \E i \in DOMAIN front : front[i] = last THEN front ELSE Append(front, last)

\* the tickers of the open trades that are not long-term holdings
RefreshSymbols(trades) ==
    LET openTrades == SelectSeq(trades, LAMBDA t :
                          t.status = "OPEN" /\ t.type # "LONG_TERM_HOLDING")
    IN  UniqueSymbols([i \in DOMAIN openTrades |-> openTrades[i].ticker])

\* how one GET /api/market-price/:symbol can end
LookupOutcomes ==
    {[kind |-> "ok", price |-> 95], [kind |-> "ok", price |-> 96],
     [kind |-> "notOk"], [kind |-> "throws"]}

\* {...prev, ...newPrices}
MergePrices(prev, newPrices) ==
    [symbol \in DOMAIN prev \cup DOMAIN newPrices |->
        IF symbol \in DOMAIN newPrices THEN newPrices[symbol] ELSE prev[symbol]]

\* the call up to its first await: both early returns, then setIsRefreshing(true)
RefreshStart(c) ==
    /\ ui.refresh[c].pc = "idle"
    /\ \A d \in RefreshCalls : d < c => ui.refresh[d].pc # "idle"
    /\ ui.loaded
    /\ LET uniqueSymbols == RefreshSymbols(ui.trades)
       IN  IF Len(uniqueSymbols) = 0 THEN UNCHANGED ui
           ELSE ui' = [ui EXCEPT !.isRefreshing = TRUE,
                                 !.refresh[c] = [pc |-> "fetch", uniqueSymbols |-> uniqueSymbols,
                                              i |-> 1, newPrices |-> <<>>, outcomes |-> <<>>]]
    /\ UNCHANGED <<store, nextId, pc, h, lastResp, orig, fullClosed, auth>>

\* the locals after the lookup of the symbol at position i ended with `outcome`
AfterLookup(refresh, outcome) ==
    LET symbol == refresh.uniqueSymbols[refresh.i]
    IN  [refresh EXCEPT
            !.i = refresh.i + 1,
            !.newPrices = IF outcome.kind = "ok"
                          THEN MergePrices(refresh.newPrices,
                                           [x \in {symbol} |-> outcome.price])
                          ELSE refresh.newPrices,
            !.outcomes = MergePrices(refresh.outcomes, [x \in {symbol} |-> outcome])]

\* mutant: a lookup that fails ends the whole refresh (no inner try / catch)
RefreshLookupAborting(c, outcome) ==
    /\ ui.refresh[c].pc = "fetch"
    /\ LET after == AfterLookup(ui.refresh[c], outcome)
       IN  IF outcome.kind = "throws"
           THEN ui' = [ui EXCEPT !.isRefreshing = FALSE,
                                 !.refresh[c] = [pc |-> "idle", outcomes |-> after.outcomes]]
           ELSE IF after.i <= Len(after.uniqueSymbols)
           THEN ui' = [ui EXCEPT !.refresh[c] = after]
           ELSE ui' = [ui EXCEPT !.marketPrices = MergePrices(ui.marketPrices, after.newPrices),
                                 !.isRefreshing = FALSE,
                                 !.refresh[c] = [pc |-> "idle", outcomes |-> after.outcomes]]
    /\ UNCHANGED <<store, nextId, pc, h, lastResp, orig, fullClosed, auth>>

\* one pass of the loop body: the lookup of the next symbol comes back; after
\* the last symbol the prices are merged and the finally block runs
RefreshLookup(c, outcome) ==
    /\ ui.refresh[c].pc = "fetch"
    /\ LET after == AfterLookup(ui.refresh[c], outcome)
       IN  IF after.i <= Len(after.uniqueSymbols)
           THEN ui' = [ui EXCEPT !.refresh[c] = after]
           ELSE ui' = [ui EXCEPT !.marketPrices = MergePrices(ui.marketPrices, after.newPrices),
                                 !.isRefreshing = FALSE,
                                 !.refresh[c] = [pc |-> "idle", outcomes |-> after.outcomes]]
    /\ UNCHANGED <<store, nextId, pc, h, lastResp, orig, fullClosed, auth>>

\* Bodies POST /api/trades accepts: an open future, an open intraday equity
\* and an open long-term holding.
PriceBodies ==
    {[ticker |-> "ES", type |-> "FUTURES", side |-> "SHORT", buyPrice |-> 100,
      quantity |-> MaxQty, entryDate |-> 1],
     [ticker |-> "INFY", type |-> "EQUITY_INTRADAY", buyPrice |-> 50,
      quantity |-> MaxQty, entryDate |-> 2],
     [ticker |-> "TCS", type |-> "LONG_TERM_HOLDING", buyPrice |-> 50,
      quantity |-> MaxQty, entryDate |-> 3, sector |-> "IT"]}

RECURSIVE PriceTables(_)
PriceTables(n) ==
    IF n = 0 THEN {<<>>}
    ELSE {StorageCreateTrade(s, n, body) : s \in PriceTables(n - 1), body \in PriceBodies}

\* The ledger page, loaded, over a table that creates have filled; no price yet.
InitPrices ==
    /\ \E n \in 0..MaxTrades : store \in PriceTables(n) /\ nextId = n + 1
    /\ pc = [p \in Procs |-> "idle"]
    /\ h = [p \in Procs |-> NoLocals]
    /\ lastResp = NoResp
    /\ orig = <<>>
    /\ fullClosed = {}
    /\ auth = InitialAuth
    /\ \E l \in TradeLists(store) : ui = [InitialUi EXCEPT !.trades = l, !.loaded = TRUE]

NextPrices ==
    \/ \E c \in RefreshCalls : RefreshStart(c)
    \/ \E c \in RefreshCalls, outcome \in LookupOutcomes : RefreshLookup(c, outcome)
SpecPrices == InitPrices /\ [][NextPrices]_vars

\* Bodies POST /api/trades accepts for the row that will get id n: a closed
\* long without stop loss, an open short with a lower-case ticker and an open
\* long whose ticker differs from it by case only.
SortBodies(n) ==
    {[ticker |-> "INFY", type |-> "EQUITY_INTRADAY", side |-> "LONG", status |-> "CLOSED",
      buyPrice |-> 100, sellPrice |-> 110, quantity |-> 10, fees |-> 5,
      entryDate |-> n, exitDate |-> n + 1],
     [ticker |-> "es", type |-> "FUTURES", side |-> "SHORT", buyPrice |-> 100,
      quantity |-> MaxQty, fees |-> 1, entryDate |-> n, stopLoss |-> 105],
     [ticker |-> "ES", type |-> "FUTURES", side |-> "LONG", buyPrice |-> 90,
      quantity |-> MaxQty, fees |-> 1, entryDate |-> n, stopLoss |-> 80]}

RECURSIVE SortTables(_)
SortTables(n) ==
    IF n = 0 THEN {<<>>}
    ELSE {StorageCreateTrade(s, n, body) : s \in SortTables(n - 1), body \in SortBodies(n)}

\* The ledger page, loaded, with or without a live price; every sortable column
\* header can be clicked.
InitSort ==
    /\ \E n \in 0..MaxTrades : store \in SortTables(n) /\ nextId = n + 1
    /\ pc = [p \in Procs |-> "idle"]
    /\ h = [p \in Procs |-> NoLocals]
    /\ lastResp = NoResp
    /\ orig = <<>>
    /\ fullClosed = {}
    /\ auth = InitialAuth
    /\ \E prices \in LedgerPrices, l \in TradeLists(store) :
          ui = [InitialUi EXCEPT !.marketPrices = prices, !.trades = l, !.loaded = TRUE]

NextSort == \E key \in SortKeys : handleSort(key)
SpecSort == InitSort /\ [][NextSort]_vars

\* The ledger page with no price yet: manual prices are typed in and refreshes
\* store live prices, in any order.
InitCmp ==
    /\ \E n \in 0..MaxTrades : store \in LedgerTables(n) /\ nextId = n + 1
    /\ pc = [p \in Procs |-> "idle"]
    /\ h = [p \in Procs |-> NoLocals]
    /\ lastResp = NoResp
    /\ orig = <<>>
    /\ fullClosed = {}
    /\ auth = InitialAuth
    /\ \E l \in TradeLists(store) : ui = [InitialUi EXCEPT !.trades = l, !.loaded = TRUE]

NextCmp ==
    \/ \E id \in ManualCmpIds, value \in ManualCmps : setManualCmpByTrade(id, value)
    \/ \E c \in RefreshCalls : RefreshStart(c)
    \/ \E c \in RefreshCalls, outcome \in LookupOutcomes : RefreshLookup(c, outcome)
SpecCmp == InitCmp /\ [][NextCmp]_vars

\* ------------------------------------------------------------------ statistics
\* GET /api/stats.  Every number the response rounds with toFixed(2) is carried
\* in hundredths.

\* Number((num / den).toFixed(2)) in hundredths: the nearest hundredth, a tie
\* away from zero; a division by zero has no finite value (JSON null)
ToFixed2(num, den) ==
    IF den = 0 THEN Null
    ELSE LET n == IF den < 0 THEN -num ELSE num
             d == Abs(den)
             q == (200 * Abs(n) + d) \div (2 * d)
         IN  IF n < 0 THEN -q ELSE q

\* line 133: the P&L the statistics attribute to one closed trade
StatsPnl(t) ==
    (Number(t.sellPrice) - Number(t.buyPrice)) * Number(t.quantity) - Number(t.fees)

closedTrades(allTrades) == SelectSeq(allTrades, LAMBDA t : t.status = "CLOSED")

sortedTrades(allTrades) ==
    StableSort(closedTrades(allTrades), EntryDateOrder(closedTrades(allTrades)))

RECURSIVE CumulativePnL(_, _)
\* cumulativePnL after the first k sorted trades
CumulativePnL(sorted, k) ==
    IF k = 0 THEN 0 ELSE CumulativePnL(sorted, k - 1) + StatsPnl(sorted[k])

\* rMultiple of one trade: pnl over the initial risk, 0 without a stop loss
StatsRMultiple(t) ==
    LET initialRiskPerUnit == Abs(Number(t.buyPrice) - Number(t.stopLoss))
    IN  IF t.buyPrice # Null /\ t.stopLoss # Null /\ initialRiskPerUnit > 0
        THEN ToFixed2(StatsPnl(t), initialRiskPerUnit * Number(t.quantity))
        ELSE 0

equityCurve(sorted) ==
    [k \in 1..Len(sorted) |->
        [date |-> sorted[k].entryDate,
         cumulativePnL |-> ToFixed2(CumulativePnL(sorted, k), 1),
         rMultiple |-> StatsRMultiple(sorted[k]),
         ticker |-> sorted[k].ticker]]

TradeIndexes(sorted) == 1..Len(sorted)

totalWins(sorted) == Cardinality({k \in TradeIndexes(sorted) : StatsPnl(sorted[k]) > 0})

grossProfit(sorted) ==
    SumOver({k \in TradeIndexes(sorted) : StatsPnl(sorted[k]) > 0},
            [k \in TradeIndexes(sorted) |-> StatsPnl(sorted[k])])

grossLoss(sorted) ==
    SumOver({k \in TradeIndexes(sorted) : StatsPnl(sorted[k]) < 0},
            [k \in TradeIndexes(sorted) |-> Abs(StatsPnl(sorted[k]))])

\* t.strategy || 'Uncategorized'
StrategyOf(t) == IF t.strategy = NullStr \/ t.strategy = "" THEN "Uncategorized" ELSE t.strategy

strategyBreakdown(sorted) ==
    LET names == {StrategyOf(sorted[k]) : k \in TradeIndexes(sorted)}
    IN  [name \in names |->
            ToFixed2(SumOver({k \in TradeIndexes(sorted) : StrategyOf(sorted[k]) = name},
                             [k \in TradeIndexes(sorted) |-> StatsPnl(sorted[k])]), 1)]

RECURSIVE DrawdownUnguarded(_, _)
\* mutant: the decline is measured from the peak even when the peak is 0
DrawdownUnguarded(curve, k) ==
    IF k = 0 THEN [maxPnL |-> 0, num |-> 0, den |-> 1]
    ELSE LET before == DrawdownUnguarded(curve, k - 1)
             point == curve[k].cumulativePnL
             maxPnL == IF point > before.maxPnL THEN point ELSE before.maxPnL
             ddNum == maxPnL - point
             ddDen == IF maxPnL > 0 THEN maxPnL ELSE 1
         IN  IF ddNum * before.den > before.num * ddDen
             THEN [maxPnL |-> maxPnL, num |-> ddNum, den |-> ddDen]
             ELSE [maxPnL |-> maxPnL, num |-> before.num, den |-> before.den]

RECURSIVE Drawdown(_, _)
\* maxPnL and maxDD after the first k points of the curve; maxDD is kept as the
\* quotient num / den
Drawdown(curve, k) ==
    IF k = 0 THEN [maxPnL |-> 0, num |-> 0, den |-> 1]
    ELSE LET before == Drawdown(curve, k - 1)
             point == curve[k].cumulativePnL
             maxPnL == IF point > before.maxPnL THEN point ELSE before.maxPnL
             ddNum == IF maxPnL > 0 THEN maxPnL - point ELSE 0
             ddDen == IF maxPnL > 0 THEN maxPnL ELSE 1
         IN  IF ddNum * before.den > before.num * ddDen
             THEN [maxPnL |-> maxPnL, num |-> ddNum, den |-> ddDen]
             ELSE [maxPnL |-> maxPnL, num |-> before.num, den |-> before.den]

ProfitFactorSentinel == 9990     \* 99.9, in hundredths

\* the body of the stats response over the list getTrades returned
Stats(allTrades) ==
    LET sorted == sortedTrades(allTrades)
        curve == equityCurve(sorted)
        dd == Drawdown(curve, Len(curve))
    IN  [netPnL |-> ToFixed2(CumulativePnL(sorted, Len(sorted)), 1),
         winRate |-> IF Len(closedTrades(allTrades)) > 0
                     THEN ToFixed2(totalWins(sorted) * 100, Len(closedTrades(allTrades)))
                     ELSE 0,
         profitFactor |-> IF grossLoss(sorted) = 0
                          THEN (IF grossProfit(sorted) > 0 THEN ProfitFactorSentinel ELSE 0)
                          ELSE ToFixed2(grossProfit(sorted), grossLoss(sorted)),
         maxDrawdown |-> ToFixed2(dd.num * 100, dd.den),
         equityCurve |-> curve,
         strategyBreakdown |-> strategyBreakdown(sorted)]

\* GET /api/stats
GetStats ==
    /\ \E allTrades \in TradeLists(store) : Respond("stats", Null, 200, Stats(allTrades))
    /\ UNCHANGED <<store, nextId, pc, h, orig, fullClosed, ui, auth>>

\* Bodies POST /api/trades accepts for the row that will get id n: closed longs
\* that make 100, lose 50, lose 150 and break even after fees, an open short,
\* and a closed short 100 -> 90 recorded under trade 1.  A root is entered on
\* day n; the break-even trade and the closed short are back-dated.
StatsBodies(n) ==
    {[ticker |-> "INFY", type |-> "EQUITY_INTRADAY", side |-> "LONG", status |-> "CLOSED",
      buyPrice |-> 100, sellPrice |-> sell, quantity |-> 10,
      entryDate |-> n, exitDate |-> n, strategy |-> "Breakout", stopLoss |-> 95]
        : sell \in {110, 95, 85}}
    \cup
    {[ticker |-> "INFY", type |-> "EQUITY_INTRADAY", side |-> "LONG", status |-> "CLOSED",
      buyPrice |-> 100, sellPrice |-> 101, quantity |-> 10, fees |-> 10,
      entryDate |-> 0 - n, exitDate |-> n],
     [ticker |-> "ES", type |-> "FUTURES", side |-> "SHORT", buyPrice |-> 100,
      quantity |-> MaxQty, fees |-> 1, entryDate |-> n, stopLoss |-> 105]}
    \cup
    (IF n = 1 THEN {}
     ELSE {[ticker |-> "ES", type |-> "FUTURES", side |-> "SHORT", status |-> "CLOSED",
            buyPrice |-> 100, sellPrice |-> 90, quantity |-> 10, fees |-> 5,
            entryDate |-> 0 - n, exitDate |-> n, parentTradeId |-> 1]})

\* Trades are recorded one request at a time; statistics and campaigns are read
\* at any moment.
NextStats ==
    \/ \E body \in StatsBodies(nextId) : CreateTrade(body, TRUE)
    \/ GetStats
    \/ \E id \in Ids : GetCampaign(id)
SpecStats == Init /\ [][NextStats]_vars

\* Bodies of closed longs that make 100, lose 50 and lose 150, entered on day n.
CurveBodies(n) ==
    {[ticker |-> "INFY", type |-> "EQUITY_INTRADAY", side |-> "LONG", status |-> "CLOSED",
      buyPrice |-> 100, sellPrice |-> sell, quantity |-> 10,
      entryDate |-> n, exitDate |-> n, strategy |-> "Breakout", stopLoss |-> 95]
        : sell \in {110, 95, 85}}

RECURSIVE CurveTables(_)
\* the tables n accepted creates of such bodies leave behind
CurveTables(n) ==
    IF n = 0 THEN {<<>>}
    ELSE {StorageCreateTrade(s, n, body) : s \in CurveTables(n - 1), body \in CurveBodies(n)}

\* The statistics over a table of up to MaxCurve closed trades.
InitCurve ==
    /\ \E n \in 0..MaxCurve : store \in CurveTables(n) /\ nextId = n + 1
    /\ pc = [p \in Procs |-> "idle"]
    /\ h = [p \in Procs |-> NoLocals]
    /\ lastResp = NoResp
    /\ orig = <<>>
    /\ fullClosed = {}
    /\ auth = InitialAuth
    /\ ui = InitialUi

NextCurve == GetStats
SpecCurve == InitCurve /\ [][NextCurve]_vars

\* ------------------------------------------------------------------ accounts
Emails == {"ann@x.io", "bob@x.io"}
Passwords == {"hunter22", "letmein9", "four"}
TokenTtl == 1                    \* one hour, in ticks of the clock

\* scrypt with a random salt, and timingSafeEqual of the re-derived key: the
\* stored value matches exactly the password it was derived from
hashPassword(password) == [scrypt |-> password]
comparePasswords(supplied, stored) == stored.scrypt = supplied
hashResetToken(token) == [sha256 |-> token]

NoUser == [id |-> Null]

getUser(users, id) == IF id \in DOMAIN users THEN users[id] ELSE NoUser

getUserByEmail(users, email) ==
    LET found == {id \in DOMAIN users : users[id].email = email}
    IN  IF found = {} THEN NoUser ELSE users[CHOOSE id \in found : TRUE]

getUserByEmailAndResetToken(users, email, tokenHash, now) ==
    LET found == {id \in DOMAIN users :
                    /\ users[id].email = email
                    /\ users[id].resetTokenHash = tokenHash
                    /\ users[id].resetTokenExpires # Null
                    /\ users[id].resetTokenExpires > now}
    IN  IF found = {} THEN NoUser ELSE users[CHOOSE id \in found : TRUE]

createUser(users, email, password) ==
    Append(users, [id |-> Len(users) + 1,
                   email |-> email,
                   password |-> password,
                   resetTokenHash |-> NullHash,
                   resetTokenExpires |-> Null,
                   isApproved |-> FALSE])

setResetToken(users, userId, tokenHash, expiresAt) ==
    [users EXCEPT ![userId].resetTokenHash = tokenHash,
                  ![userId].resetTokenExpires = expiresAt]

updateUserPassword(users, userId, password) ==
    [users EXCEPT ![userId].password = password,
                  ![userId].resetTokenHash = NullHash,
                  ![userId].resetTokenExpires = Null]

\* the mutation of the verify callback that lets a pending account in
verifyWithoutApproval(users, email, password) ==
    LET user == getUserByEmail(users, email)
    IN  IF user = NoUser \/ ~comparePasswords(password, user.password)
        THEN NoUser ELSE user

\* the verify callback of the local strategy: the user, or NoUser for done(null, false)
verify(users, email, password) ==
    LET user == getUserByEmail(users, email)
    IN  IF user = NoUser \/ ~comparePasswords(password, user.password)
        THEN NoUser
        ELSE IF user.isApproved = FALSE THEN NoUser ELSE user

\* history: the reset tokens of a user stop being live
Kill(tokens, userId) ==
    [t \in DOMAIN tokens |->
        IF tokens[t].user = userId THEN [tokens[t] EXCEPT !.dead = TRUE] ELSE tokens[t]]

\* AuthPage's effect: a truthy user in the context sends the auth page to the
\* dashboard; with no user a protected route gives way to the auth page.
Rendered(a) ==
    [a EXCEPT !.location = IF a.cache # NoData THEN "/dashboard" ELSE "/auth"]

\* The three mutations and the query of AuthProvider run in the browser: their
\* onSuccess puts `data` under the query key /api/user, and the page renders.
Settled(c, a, succeeded, data) ==
    IF c = Browser /\ succeeded THEN Rendered([a EXCEPT !.cache = data]) ELSE a

AuthFrame == UNCHANGED <<store, nextId, pc, h, orig, fullClosed, ui>>

\* POST /api/register (the form requires both fields)
Register(c, email, password) ==
    /\ IF getUserByEmail(auth.users, email) # NoUser
       THEN /\ Respond("register", [client |-> c], 400, [message |-> "User already exists"])
            /\ UNCHANGED auth
       ELSE LET body == [message |-> "Registration successful! Your account is pending admin approval."]
                created == [auth EXCEPT !.users = createUser(@, email, hashPassword(password))]
            IN  /\ Respond("register", [client |-> c], 201, body)
                /\ auth' = Settled(c, created, TRUE, body)
    /\ AuthFrame

\* POST /api/login
Login(c, email, password) ==
    LET user == verify(auth.users, email, password)
        request == [client |-> c, email |-> email, password |-> password]
    IN  /\ IF user = NoUser
           THEN /\ Respond("login", request, 401, [message |-> "Unauthorized"])
                /\ UNCHANGED auth
           ELSE /\ Respond("login", request, 200, user)
                /\ auth' = Settled(c, [auth EXCEPT !.sessions[c] = user.id], TRUE, user)
        /\ AuthFrame

\* POST /api/logout
Logout(c) ==
    /\ Respond("logout", [client |-> c], 200, [message |-> "OK"])
    /\ auth' = Settled(c, [auth EXCEPT !.sessions[c] = Null], TRUE, NoData)
    /\ AuthFrame

\* GET /api/user, as the browser's query fetches it (on401: "returnNull")
FetchUser ==
    LET c == Browser
        authenticated == auth.sessions[c] # Null
    IN  /\ IF authenticated
           THEN /\ Respond("user", [client |-> c], 200, getUser(auth.users, auth.sessions[c]))
                /\ auth' = Settled(c, auth, TRUE, getUser(auth.users, auth.sessions[c]))
           ELSE /\ Respond("user", [client |-> c], 401, [message |-> "Unauthorized"])
                /\ auth' = Settled(c, auth, TRUE, NoData)
        /\ AuthFrame

\* POST /api/password/change
ChangePassword(c, currentPassword, newPassword) ==
    LET user == getUser(auth.users, auth.sessions[c])
    IN  /\ IF auth.sessions[c] = Null
           THEN /\ Respond("change", [client |-> c], 401, [message |-> "Unauthorized"])
                /\ UNCHANGED auth
           ELSE IF Len(newPassword) < 6
           THEN /\ Respond("change", [client |-> c], 400, [message |-> "New password must be at least 6 characters."])
                /\ UNCHANGED auth
           ELSE IF ~comparePasswords(currentPassword, user.password)
           THEN /\ Respond("change", [client |-> c], 400, [message |-> "Current password is incorrect."])
                /\ UNCHANGED auth
           ELSE /\ Respond("change", [client |-> c], 200, [message |-> "Password updated successfully."])
                /\ auth' = [auth EXCEPT
                              !.users = updateUserPassword(@, user.id, hashPassword(newPassword)),
                              !.tokens = Kill(@, user.id)]
        /\ AuthFrame

\* POST /api/password/forgot: the token goes to the user (in the body when
\* NODE_ENV is not production, else by a channel outside the server)
ForgotPassword(email) ==
    LET user == getUserByEmail(auth.users, email)
        token == auth.nextToken
        expiresAt == auth.now + TokenTtl
        generic == "If an account exists, a reset link has been generated."
    IN  /\ IF ~auth.isPasswordResetEnabled
           THEN /\ Respond("forgot", [email |-> email], 403, [message |-> "Password reset is disabled."])
                /\ UNCHANGED auth
           ELSE IF user = NoUser
           THEN /\ Respond("forgot", [email |-> email], 200, [message |-> generic])
                /\ UNCHANGED auth
           ELSE /\ token <= MaxTokens
                /\ Respond("forgot", [email |-> email], 200, [message |-> generic, resetToken |-> token])
                /\ auth' = [auth EXCEPT
                              !.users = setResetToken(@, user.id, hashResetToken(token), expiresAt),
                              !.nextToken = token + 1,
                              !.tokens = Append(Kill(@, user.id),
                                                [user |-> user.id, expires |-> expiresAt,
                                                 used |-> FALSE, dead |-> FALSE])]
        /\ AuthFrame

\* POST /api/password/reset up to `await hashPassword(newPassword)`: the checks
\* of the body and the lookup of the token
ResetLookup(r, email, token, newPassword) ==
    LET user == getUserByEmailAndResetToken(auth.users, email, hashResetToken(token), auth.now)
        request == [email |-> email, token |-> token]
    IN  /\ auth.reset[r].pc = "idle"
        /\ \A q \in ResetCalls : q < r => auth.reset[q].pc # "idle"
        /\ IF ~auth.isPasswordResetEnabled
           THEN /\ UNCHANGED auth
                /\ Respond("reset", request, 403, [message |-> "Password reset is disabled."])
           ELSE IF Len(newPassword) < 6
           THEN /\ UNCHANGED auth
                /\ Respond("reset", request, 400, [message |-> "New password must be at least 6 characters."])
           ELSE IF user = NoUser
           THEN /\ UNCHANGED auth
                /\ Respond("reset", request, 400, [message |-> "Invalid or expired reset token."])
           ELSE /\ auth' = [auth EXCEPT !.reset[r] =
                              [pc |-> "updateUserPassword", userId |-> user.id, email |-> email,
                               token |-> token, newPassword |-> newPassword]]
                /\ UNCHANGED lastResp
        /\ AuthFrame

\* POST /api/password/reset from the hash on: the update and the answer
ResetUpdate(r) ==
    LET l == auth.reset[r]
    IN  /\ l.pc = "updateUserPassword"
        /\ auth' = [auth EXCEPT
                      !.users = updateUserPassword(@, l.userId, hashPassword(l.newPassword)),
                      !.reset[r] = [pc |-> "idle"],
                      !.tokens = [Kill(@, l.userId) EXCEPT ![l.token].used = TRUE]]
        /\ Respond("reset", [email |-> l.email, token |-> l.token], 200,
                   [message |-> "Password reset successful."])
        /\ AuthFrame

\* No route approves an account: an administrator sets the column in the database.
AdminApproves(id) ==
    /\ id \in DOMAIN auth.users
    /\ ~auth.users[id].isApproved
    /\ auth' = [auth EXCEPT !.users[id].isApproved = TRUE]
    /\ UNCHANGED lastResp
    /\ AuthFrame

\* time passes
Tick ==
    /\ auth.now < MaxTime
    /\ auth' = [auth EXCEPT !.now = @ + 1]
    /\ UNCHANGED lastResp
    /\ AuthFrame

\* accounts with password reset switched off (PASSWORD_RESET_ENABLED unset)
InitAuth ==
    /\ store = <<>>
    /\ nextId = 1
    /\ pc = [p \in Procs |-> "idle"]
    /\ h = [p \in Procs |-> NoLocals]
    /\ lastResp = NoResp
    /\ orig = <<>>
    /\ fullClosed = {}
    /\ ui = InitialUi
    /\ auth = [InitialAuth EXCEPT !.isPasswordResetEnabled = FALSE]

NextAuth ==
    \/ \E c \in Clients, email \in Emails, password \in Passwords : Register(c, email, password)
    \/ \E c \in Clients, email \in Emails, password \in Passwords : Login(c, email, password)
    \/ \E c \in Clients : Logout(c)
    \/ FetchUser
    \/ \E c \in Clients, currentPassword \in Passwords, newPassword \in Passwords :
          ChangePassword(c, currentPassword, newPassword)
    \/ \E email \in Emails : ForgotPassword(email)
    \/ \E r \in ResetCalls, email \in Emails, token \in 1..MaxTokens, newPassword \in Passwords :
          ResetLookup(r, email, token, newPassword)
    \/ \E id \in 1..Cardinality(Emails) : AdminApproves(id)

SpecAuth == InitAuth /\ [][NextAuth]_vars

\* Password reset switched on, after every address has registered with the
\* first password and was approved, and the first user has logged in from the
\* browser.
RECURSIVE Registered(_, _)
Registered(users, emails) ==
    IF emails = {} THEN users
    ELSE LET email == CHOOSE e \in emails : TRUE
             created == createUser(users, email, hashPassword("hunter22"))
         IN  Registered([created EXCEPT ![Len(created)].isApproved = TRUE], emails \ {email})

InitReset ==
    /\ store = <<>>
    /\ nextId = 1
    /\ pc = [p \in Procs |-> "idle"]
    /\ h = [p \in Procs |-> NoLocals]
    /\ lastResp = NoResp
    /\ orig = <<>>
    /\ fullClosed = {}
    /\ ui = InitialUi
    /\ LET users == Registered(<<>>, Emails)
       IN  auth = Settled(Browser, [InitialAuth EXCEPT !.users = users, !.sessions[Browser] = 1],
                          TRUE, users[1])

NextReset ==
    \/ \E email \in Emails : ForgotPassword(email)
    \/ \E r \in ResetCalls, email \in Emails, token \in 1..MaxTokens, newPassword \in Passwords :
          ResetLookup(r, email, token, newPassword)
    \/ \E r \in ResetCalls : ResetUpdate(r)
    \/ \E c \in Clients, currentPassword \in Passwords, newPassword \in Passwords :
          ChangePassword(c, currentPassword, newPassword)
    \/ Tick

SpecReset == InitReset /\ [][NextReset]_vars

\* ------------------------------------------------------------------ properties
Rows == StorageGetTrades(store)

\* sum of the quantities of the rows whose parentTradeId is r
SoldQty(s, r) ==
    LET children == ChildrenOf(StorageGetTrades(s), r)
    IN  SumOver(children, [c \in children |-> c.quantity])

\* the quantity stored on row r, 0 once the row is gone
StoredQty(s, r) == IF r \in DOMAIN s THEN s[r].quantity ELSE 0

\* slot p answers its close request with 200 in this step
CloseCompletes(p) ==
    /\ pc[p] \in {"deleteTrade", "updateTrade"}
    /\ pc'[p] = "idle"
    /\ lastResp'.op = "close"
    /\ lastResp'.status = 200

\* the rows of s2 that s1 does not have
Added(s1, s2) == {s2[i] : i \in DOMAIN s2 \ DOMAIN s1}

C2_NoDoubleSelling ==
    \A r \in DOMAIN orig : SoldQty(store, r) <= orig[r]

\* C3: no list response shows the closed record of a close in flight next to
\* the original row still as it was before the close.
C3_AtomicVisibility ==
    [][\A p \in Procs :
          (/\ pc[p] \in {"deleteTrade", "updateTrade"}
           /\ h[p].sellQty # 0
           /\ lastResp'.op = "list"
           /\ lastResp' # lastResp)
          => ~(h[p].closedTrade \in lastResp'.body /\ h[p].originalTrade \in lastResp'.body)]_vars

\* C4: a close whose body asks for more than the stored quantity of an existing
\* trade is answered 400 and changes neither the table nor the id sequence, and
\* the handler ends there.
C4_ClosePrecondition ==
    [][\A id \in DOMAIN store, body \in CloseBodies :
          ("quantity" \in DOMAIN body /\ body.quantity > store[id].quantity)
          => \A p \in Procs :
                CloseGetTrade(p, id, body, TRUE)
                => /\ lastResp'.op = "close"
                   /\ lastResp'.status = 400
                   /\ store' = store
                   /\ nextId' = nextId
                   /\ pc' = pc]_vars

\* a close of more than the stored quantity has just been refused
C4_Witness ==
    /\ lastResp.op = "close"
    /\ lastResp.status = 400
    /\ lastResp.body.message = "Cannot sell more than owned quantity"
    /\ lastResp.id \in DOMAIN store
    /\ Quiescent

\* C5: when an accepted close sold exactly the stored quantity, the original id
\* is gone, every other earlier row is as before, and exactly one row was added:
\* CLOSED, with the sold quantity and parentTradeId = the original id.
C5_FullClose ==
    [][\A p \in Procs :
          (CloseCompletes(p) /\ h[p].sellQty = h[p].pre[h[p].id].quantity)
          => LET id == h[p].id
                 pre == h[p].pre
                 added == Added(pre, store')
             IN  /\ id \notin DOMAIN store'
                 /\ DOMAIN pre \ {id} \subseteq DOMAIN store'
                 /\ \A i \in DOMAIN pre \ {id} : store'[i] = pre[i]
                 /\ Cardinality(added) = 1
                 /\ \A c \in added : /\ c.status = "CLOSED"
                                     /\ c.quantity = h[p].sellQty
                                     /\ c.parentTradeId = id]_vars

\* a full close of a root has completed: the root is gone, its closed record is there
C5_Witness ==
    /\ lastResp.op = "close"
    /\ lastResp.status = 200
    /\ lastResp.id \in fullClosed
    /\ lastResp.id \notin DOMAIN store
    /\ lastResp.body.quantity > 0
    /\ lastResp.body.id \in DOMAIN store

C8_FailureKeepsQuantity ==
    [][\A p \in Procs :
          (/\ pc[p] \in {"deleteTrade", "updateTrade"}
           /\ pc'[p] = "idle"
           /\ lastResp'.op = "close"
           /\ lastResp'.status # 200)
          => /\ lastResp'.status = 500
             /\ (IF h[p].closedTrade.id \in DOMAIN store'
                 THEN h[p].closedTrade.quantity ELSE 0)
                + StoredQty(store', h[p].id) <= h[p].originalQty]_vars

\* a request for a trade id that is not in the table, by route
MissingIdStep(id, status) ==
    /\ lastResp'.status = status
    /\ store' = store
    /\ nextId' = nextId
    /\ pc' = pc

C10_OrphanCampaignResolves ==
    [][\A id \in DOMAIN store :
          (store[id].parentTradeId \in fullClosed /\ GetCampaign(id))
          => lastResp'.status # 404]_vars

\* ------------------------------------------------------------------ ledger properties
\* the rows of the chronological pass
LedgerRows == {initialData(ui)[k] : k \in DOMAIN initialData(ui)}

\* (p - entry) x quantity for a long, (entry - p) x quantity for a short
SideGross(trade, p) ==
    IF trade.side = "SHORT"
    THEN (Number(trade.buyPrice) - p) * Number(trade.quantity)
    ELSE (p - Number(trade.buyPrice)) * Number(trade.quantity)

\* the rows of r's metrics carry the side-dependent gross and net of price p
SignCorrect(r, p) ==
    /\ r.grossProfit = SideGross(r.trade, p)
    /\ r.netProfit = SideGross(r.trade, p) - Number(r.trade.fees)

\* the profit / loss filter keeps a closed trade by the sign of the same value
FilterSignCorrect(u) ==
    \A i \in DOMAIN activeTrades(u) :
        LET t == activeTrades(u)[i]
            net == SideGross(t, Number(t.sellPrice)) - Number(t.fees)
        IN  t.status = "CLOSED" =>
                /\ MatchesPnl(t, "PROFIT") = (net > 0)
                /\ MatchesPnl(t, "LOSS") = (net < 0)
                /\ MatchesPnl(t, "ALL")

\* C11: every ledger row that has an effective price p (the live or manual
\* price of an open row, the sell price of a closed row) shows gross P&L
\* (p - entry) x quantity when long and (entry - p) x quantity when short, and
\* net P&L gross - fees; the P&L-sign filter decides by the same value.
C11_LedgerSignCorrect ==
    /\ \A r \in LedgerRows :
          CurrentPrice(r.trade, ui) # Null => SignCorrect(r, CurrentPrice(r.trade, ui))
    /\ FilterSignCorrect(ui)

\* C11 restricted to effective prices other than 0
C11_SignCorrectAwayFromZero ==
    /\ \A r \in LedgerRows :
          Truthy(CurrentPrice(r.trade, ui)) => SignCorrect(r, CurrentPrice(r.trade, ui))
    /\ FilterSignCorrect(ui)

\* C11: a closed long 100 -> 110 and a closed short 100 -> 90, quantity 10 and
\* fees 5, are both on the ledger with net 95
C11_BothNet95 ==
    /\ \E r \in LedgerRows : r.trade.side = "LONG" /\ r.exitPrice = 110 /\ r.netProfit = 95
    /\ \E r \in LedgerRows : r.trade.side = "SHORT" /\ r.exitPrice = 90 /\ r.netProfit = 95

\* every sort the page can be in, and none
AllSortConfigs == [key : SortKeys, direction : {"asc", "desc"}] \cup {NoSort}

SeqToSet(seq) == {seq[k] : k \in DOMAIN seq}

\* C13: for the trades, filters and prices of the page, whatever the sort key
\* and direction (or with no sort) the displayed main rows are the same rows,
\* each with the same fields and the same accountValue, in some order.
C13_SortKeepsAccountValue ==
    LET shown == spreadsheetData(ui)
    IN  \A sc \in AllSortConfigs :
            LET sorted == spreadsheetData([ui EXCEPT !.sortConfig = sc])
            IN  /\ Len(sorted) = Len(shown)
                /\ SeqToSet(sorted) = SeqToSet(shown)
                /\ \A r \in SeqToSet(sorted) : \A q \in SeqToSet(shown) :
                      r.trade.id = q.trade.id => r.accountValue = q.accountValue

\* a column header has been clicked and the main rows, whose running totals
\* differ, stand in another order than the chronological one
C13_Witness ==
    /\ ui.sortConfig.key = "netProfit"
    /\ spreadsheetData(ui) # mainInitialData(ui)
    /\ \E r, q \in SeqToSet(spreadsheetData(ui)) : r.accountValue # q.accountValue

\* ------------------------------------------------------------------ statistics properties
\* net P&L of a closed trade by its side: (exit - entry) x quantity - fees for
\* a long, (entry - exit) x quantity - fees for a short
SideNet(t) == SideGross(t, Number(t.sellPrice)) - Number(t.fees)

\* the closed rows of the table
ClosedRows == {t \in Rows : t.status = "CLOSED"}

\* the closed rows entered no later than day d
ClosedUpTo(d) == {t \in ClosedRows : t.entryDate <= d}

SideNetOf(rows) == SumOver(rows, [t \in rows |-> SideNet(t)])

\* the stats response answers for the table as it stands
StatsAnswered == lastResp.op = "stats"

\* C12: the server computes the net P&L of a closed SHORT trade as
\* (entry - exit) x quantity - fees and of a closed LONG trade as
\* (exit - entry) x quantity - fees: in the statistics (net P&L, every point of
\* the equity curve, the strategy breakdown) and in the campaign
\* (total_realized_pnl and the pnl of each EXIT event).
C12_ServerSideConvention ==
    /\ StatsAnswered =>
          /\ lastResp.body.netPnL = 100 * SideNetOf(ClosedRows)
          /\ \A k \in DOMAIN lastResp.body.equityCurve :
                LET point == lastResp.body.equityCurve[k]
                IN  point.cumulativePnL = 100 * SideNetOf(ClosedUpTo(point.date))
          /\ \A name \in DOMAIN lastResp.body.strategyBreakdown :
                lastResp.body.strategyBreakdown[name]
                    = 100 * SideNetOf({t \in ClosedRows : StrategyOf(t) = name})
    /\ (lastResp.op = "campaign" /\ lastResp.status = 200) =>
          LET children == ChildrenOf(Rows, ParentIdOf(store[lastResp.id]))
          IN  /\ lastResp.body.total_realized_pnl = SideNetOf(children)
              /\ \A e \in lastResp.body.exits : e.pnl = SideNet(store[e.id])

\* C12 for tables whose closed trades are all LONG
C12_LongOnly ==
    (\A t \in ClosedRows : t.side = "LONG") => C12_ServerSideConvention

\* the net P&L by side of each closed row
SideNets == [t \in ClosedRows |-> SideNet(t)]

\* the per-trade net P&L GET /api/stats computes, of each closed row
StatsPnls == [t \in ClosedRows |-> StatsPnl(t)]

\* value, in hundredths, is num / den to the two decimals the response carries
IsQuotient(value, num, den) == value # Null /\ 2 * Abs(value * den - 100 * num) <= den

\* the profit factor of the closed rows, each with net P&L Net
ProfitFactorIs(value, net) ==
    LET profit == SumOver({t \in ClosedRows : net[t] > 0}, net)
        loss == Abs(SumOver({t \in ClosedRows : net[t] < 0}, net))
    IN  IF loss # 0 THEN IsQuotient(value, profit, loss)
        ELSE IF profit > 0 THEN value = ProfitFactorSentinel
        ELSE value = 0

\* C14: profitFactor is the sum of the positive per-trade net P&L of the closed
\* trades over the absolute sum of the negative ones when that loss is not 0;
\* with no loss it is 99.9 when there is profit and 0 otherwise (no closed
\* trades included); it is always a number (nothing is divided by zero).
C14_ProfitFactor ==
    StatsAnswered => ProfitFactorIs(lastResp.body.profitFactor, SideNets)

\* C14 over the per-trade P&L the statistics themselves compute
C14_ProfitFactorOfStatsPnl ==
    StatsAnswered => ProfitFactorIs(lastResp.body.profitFactor, StatsPnls)

\* the win rate of the closed rows, each with net P&L Net
WinRateIs(value, net) ==
    LET wins == Cardinality({t \in ClosedRows : net[t] > 0})
        closed == Cardinality(ClosedRows)
    IN  IF closed = 0 THEN value = 0 ELSE IsQuotient(value, 100 * wins, closed)

\* C16: winRate is 100 x the closed trades with net P&L > 0 over the closed
\* trades, 0 without closed trades; a closed trade with net P&L 0 is in the
\* denominator only, an OPEN trade in neither count.
C16_WinRate ==
    StatsAnswered => WinRateIs(lastResp.body.winRate, SideNets)

\* C16 over the per-trade P&L the statistics themselves compute
C16_WinRateOfStatsPnl ==
    StatsAnswered => WinRateIs(lastResp.body.winRate, StatsPnls)

\* the entry dates of the closed rows: the points of the curve
CurveDates == {t.entryDate : t \in ClosedRows}

\* the cumulative P&L at the point of day d
CurveAt(d, net) == SumOver(ClosedUpTo(d), net)

\* the running peak at the point of day d
PeakAt(d, net) ==
    CHOOSE m \in {CurveAt(e, net) : e \in {x \in CurveDates : x <= d}} :
        \A e \in {x \in CurveDates : x <= d} : CurveAt(e, net) <= m

\* the drawdown at the point of day d as a quotient
DrawdownAt(d, net) ==
    LET peak == PeakAt(d, net)
    IN  IF peak > 0 THEN Ratio(peak - CurveAt(d, net), peak) ELSE Ratio(0, 1)

\* value is 100 x the largest drawdown over the points of the curve
MaxDrawdownIs(value, net) ==
    IF CurveDates = {} THEN value = 0
    ELSE \E d \in CurveDates :
            LET worst == DrawdownAt(d, net)
            IN  /\ \A e \in CurveDates :
                      DrawdownAt(e, net).num * worst.den <= worst.num * DrawdownAt(e, net).den
                /\ IsQuotient(value, 100 * worst.num, worst.den)

\* C15: maxDrawdown is 100 x the maximum, over the points of the cumulative
\* closed-trade P&L curve in ascending entry date order, of
\* (running peak - current) / running peak when the running peak is > 0 and of
\* 0 otherwise.
C15_MaxDrawdown ==
    StatsAnswered => MaxDrawdownIs(lastResp.body.maxDrawdown, SideNets)

\* C15 over the per-trade P&L the statistics themselves compute
C15_MaxDrawdownOfStatsPnl ==
    StatsAnswered => MaxDrawdownIs(lastResp.body.maxDrawdown, StatsPnls)

\* the cumulativePnL values of the equity curve of the response, in hundredths
CurveValues ==
    [k \in DOMAIN lastResp.body.equityCurve |-> lastResp.body.equityCurve[k].cumulativePnL]

\* C15, the example: the curve [100, 200, 150, 250, 100] has maxDrawdown 60
C15_ExampleCurve ==
    (StatsAnswered /\ CurveValues = <<10000, 20000, 15000, 25000, 10000>>)
        => lastResp.body.maxDrawdown = 6000

\* the statistics have answered with the curve [100, 200, 150, 250, 100]
C15_ExampleReached ==
    StatsAnswered /\ CurveValues = <<10000, 20000, 15000, 25000, 10000>>

\* ------------------------------------------------------------------ price refresh properties

\* the tickers a refresh is about
OpenSymbols(trades) ==
    {trades[i].ticker : i \in {j \in DOMAIN trades :
        trades[j].status = "OPEN" /\ trades[j].type # "LONG_TERM_HOLDING"}}

\* call c of fetchMarketPrices returns in this step
RefreshEnds(c) == ui.refresh[c].pc = "fetch" /\ ui'.refresh[c].pc = "idle"

\* C17: a price refresh looks up every ticker of the open non-long-term
\* trades whatever the earlier lookups did; when it ends, each symbol whose
\* lookup succeeded has its new price in marketPrices, each symbol whose
\* lookup failed or was not OK has the price it had before (or none), and
\* isRefreshing is false.
C17_FailureIsolation ==
    [][\A c \in RefreshCalls : RefreshEnds(c) =>
          LET outcomes == ui'.refresh[c].outcomes
              before == ui.marketPrices
              after == ui'.marketPrices
          IN  /\ DOMAIN outcomes = OpenSymbols(ui.trades)
              /\ \A symbol \in DOMAIN outcomes :
                    IF outcomes[symbol].kind = "ok"
                    THEN symbol \in DOMAIN after /\ after[symbol] = outcomes[symbol].price
                    ELSE IF symbol \in DOMAIN before
                         THEN symbol \in DOMAIN after /\ after[symbol] = before[symbol]
                         ELSE symbol \notin DOMAIN after
              /\ ui'.isRefreshing = FALSE]_vars

\* a refresh has ended in which the first lookup threw, a later one succeeded
\* and the symbol that failed still has a price from an earlier refresh
C17_Witness ==
    \E c \in RefreshCalls :
        LET outcomes == ui.refresh[c].outcomes
        IN  /\ ui.refresh[c].pc = "idle"
            /\ "INFY" \in DOMAIN outcomes /\ "ES" \in DOMAIN outcomes
            /\ \E i, j \in DOMAIN ui.trades :
                  /\ i < j
                  /\ ui.trades[i].ticker = "INFY" /\ ui.trades[j].ticker = "ES"
                  /\ \A k \in 1..(j - 1) : ui.trades[k].ticker # "ES"
                  /\ \A k \in 1..(i - 1) : ui.trades[k].ticker = "TCS"
            /\ outcomes["INFY"].kind = "throws"
            /\ outcomes["ES"].kind = "ok"
            /\ "INFY" \in DOMAIN ui.marketPrices
            /\ "ES" \in DOMAIN ui.marketPrices
            /\ ui.marketPrices["ES"] = outcomes["ES"].price
            /\ ui.marketPrices["INFY"] # ui.marketPrices["ES"]
            /\ ~ui.isRefreshing

\* ------------------------------------------------------------------ close target properties

\* no row's parentTradeId names a row that has a parent itself
NoGrandchild(s) ==
    \A i \in DOMAIN s, j \in DOMAIN s :
        s[i].parentTradeId = s[j].id => s[j].parentTradeId = Null

\* slot p holds a close request that read a CLOSED row
ClosesClosedTrade(p) ==
    /\ pc[p] \in {"createTrade", "deleteTrade", "updateTrade"}
    /\ h[p].op = "close"
    /\ h[p].originalTrade.status = "CLOSED"

\* C18: a close request whose target row is CLOSED inserts nothing and leaves
\* the table as it was, and no row's parentTradeId names a row whose own
\* parentTradeId is set.
C18_CloseOnlyOpenTrades ==
    /\ [][\A p \in Procs : ClosesClosedTrade(p) => store' = store]_vars
    /\ []NoGrandchild(store)

\* closes of OPEN rows alone never give a child a child
C18_OpenTargetsKeepDepth ==
    [][(NoGrandchild(store) /\ \A p \in Procs : ~ClosesClosedTrade(p))
          => NoGrandchild(store')]_vars

\* ------------------------------------------------------------------ ledger partition properties

\* C19: a filtered trade is a main row exactly when its parentTradeId is null
\* or names no filtered trade; every other filtered trade's parent is a main
\* row that lists it as a child, and every filtered trade is in the table
\* body exactly once.
C19_RootChildPartition ==
    LET filtered == SeqToSet(filteredTrades(ui))
        ids == {t.id : t \in filtered}
        main == {r.trade.id : r \in SeqToSet(mainInitialData(ui))}
        body == TableBodyRows(ui, Len(spreadsheetData(ui)))
    IN  /\ \A t \in filtered :
              t.id \in main <=> (t.parentTradeId = Null \/ t.parentTradeId \notin ids)
        /\ \A t \in filtered :
              t.id \notin main =>
                  /\ t.parentTradeId \in main
                  /\ t \in SeqToSet(childrenByParentId(ui, t.parentTradeId))
        /\ \A id \in ids : Cardinality({i \in DOMAIN body : body[i] = id}) = 1

\* the partition holds whenever no filtered trade's parent is a child itself
C19_PartitionAtDepthOne ==
    LET filtered == SeqToSet(filteredTrades(ui))
    IN  (\A t, r \in filtered : t.parentTradeId = r.id => r.parentTradeId = Null)
            => C19_RootChildPartition

\* a parent, its child and an orphan whose parent is filtered out are shown
C19_DepthOneShown ==
    LET filtered == SeqToSet(filteredTrades(ui))
    IN  /\ \A t, r \in filtered : t.parentTradeId = r.id => r.parentTradeId = Null
        /\ \E t, r \in filtered : t.parentTradeId = r.id
        /\ Len(filteredTrades(ui)) = MaxTrades

\* ------------------------------------------------------------------ running total properties

\* C20: the ledger rows are the filtered trades in ascending entry date order;
\* the accountValue of the k-th row is the sum of the net P&L of rows 1..k,
\* a null net P&L counting 0, and the accountValue of the last row is the
\* total net P&L of the page (0 when there is no row).
C20_RunningAccountValue ==
    LET rows == initialData(ui)
        filtered == filteredTrades(ui)
        net == [k \in DOMAIN rows |->
                   IF rows[k].netProfit = Null THEN 0 ELSE rows[k].netProfit]
        total == totalNetPnl(ui)
    IN  /\ Len(rows) = Len(filtered)
        /\ {rows[k].trade : k \in DOMAIN rows} = SeqToSet(filtered)
        /\ \A k \in DOMAIN rows :
              /\ k > 1 => rows[k - 1].trade.entryDate <= rows[k].trade.entryDate
              /\ rows[k].accountValue = SumOver(1..k, net)
        /\ total = IF Len(rows) = 0 THEN 0 ELSE rows[Len(rows)].accountValue

\* a filter hides a trade that has a net P&L, and of the rows left one that
\* has a net P&L is followed by one that has none and carries the total on
C20_Witness ==
    LET rows == initialData(ui)
        hidden == SeqToSet(activeTrades(ui)) \ SeqToSet(filteredTrades(ui))
    IN  /\ \E t \in hidden : LedgerRow(t, ui).netProfit \notin {Null, 0}
        /\ \E j, k \in DOMAIN rows :
              /\ j < k
              /\ rows[j].netProfit \notin {Null, 0}
              /\ rows[k].netProfit = Null
              /\ rows[k].accountValue = rows[j].accountValue
              /\ rows[k].accountValue # 0

\* ------------------------------------------------------------------ price resolution properties

\* price maps and manual prices the page could hold instead of its own
OtherPrices == {<<>>, [symbol \in {"ES", "INFY"} |-> 7]}
OtherManualCmps == {<<>>, [id \in Ids |-> 3]}

\* gross P&L, net P&L, gain % and R-multiple of a row
Metrics(r) == <<r.grossProfit, r.netProfit, r.tradeGainPercent, r.rMultiple>>

\* C21: the price of an OPEN row is the stored live price of its ticker,
\* without one the manual price of its trade id, without either unset, and an
\* unset price leaves gross P&L, net P&L, gain % and R-multiple null; the price
\* of a CLOSED row is its sellPrice and its metrics are the same whatever live
\* and manual prices the page holds.
C21_CmpResolution ==
    \A r \in LedgerRows :
        LET t == r.trade
            price == IF t.ticker \in DOMAIN ui.marketPrices
                     THEN ui.marketPrices[t.ticker]
                     ELSE IF t.id \in DOMAIN ui.manualCmpByTrade
                     THEN ui.manualCmpByTrade[t.id]
                     ELSE Null
        IN  IF t.status = "OPEN"
            THEN /\ r.cmp = price
                 /\ price = Null => Metrics(r) = <<Null, Null, NullRatio, NullRatio>>
                 /\ r.grossProfit # Null => r.grossProfit = SideGross(t, price)
            ELSE /\ r.exitPrice = t.sellPrice
                 /\ r.grossProfit # Null => r.grossProfit = SideGross(t, t.sellPrice)
                 /\ \A prices \in OtherPrices, manual \in OtherManualCmps :
                       Metrics(LedgerRow(t, [ui EXCEPT !.marketPrices = prices,
                                                       !.manualCmpByTrade = manual]))
                           = Metrics(r)

\* an OPEN row has a manual price and a different live price and shows the
\* live one, next to a CLOSED row of the same ticker
C21_Witness ==
    /\ \E r \in LedgerRows :
          /\ r.status = "OPEN"
          /\ r.trade.id \in DOMAIN ui.manualCmpByTrade
          /\ r.trade.ticker \in DOMAIN ui.marketPrices
          /\ ui.manualCmpByTrade[r.trade.id] # ui.marketPrices[r.trade.ticker]
          /\ r.cmp = ui.marketPrices[r.trade.ticker]
          /\ r.grossProfit # Null
    /\ \E r \in LedgerRows :
          r.status = "CLOSED" /\ r.trade.ticker \in DOMAIN ui.marketPrices

\* the effective price of a row: its CMP when OPEN, its exit price when CLOSED
EffectivePrice(r) == IF r.status = "OPEN" THEN r.cmp ELSE r.exitPrice

\* gross and net P&L of row r are null without a price and the side-dependent
\* product, less fees for the net, with one
GrossFollowsPrice(r) ==
    LET p == EffectivePrice(r)
    IN  IF p = Null
        THEN r.grossProfit = Null /\ r.netProfit = Null
        ELSE /\ r.grossProfit = SideGross(r.trade, p)
             /\ r.netProfit = SideGross(r.trade, p) - Number(r.trade.fees)

\* C22: gross P&L of a ledger row is null exactly when its effective price is
\* absent; with a price, 0 included, gross P&L is the side-dependent product
\* and net P&L is gross - fees.
C22_GrossNullOnlyWithoutPrice == \A r \in LedgerRows : GrossFollowsPrice(r)

\* C22 for every row whose effective price is not 0
C22_GrossFollowsNonZeroPrice ==
    \A r \in LedgerRows : EffectivePrice(r) # 0 => GrossFollowsPrice(r)

\* ------------------------------------------------------------------ sort order properties

\* C23: in the displayed rows, under the sort key and direction of the page,
\* no row whose value for the key is null stands before a row whose value is
\* present, and of two rows with present values the earlier one is not the
\* greater when ascending and not the smaller when descending, strings
\* compared without case and entryDate by timestamp.
C23_NullsSortLast ==
    LET shown == spreadsheetData(ui)
        key == ui.sortConfig.key
        value == [i \in DOMAIN shown |-> SortValue(shown[i], key)]
        null == [i \in DOMAIN shown |-> ValueIsNull(value[i], key)]
    IN  \A i, j \in DOMAIN shown :
            i < j =>
                /\ ~(null[i] /\ ~null[j])
                /\ (~null[i] /\ ~null[j]) =>
                      IF ui.sortConfig.direction = "asc"
                      THEN ~ValueLess(value[j], value[i], key)
                      ELSE ~ValueLess(value[i], value[j], key)

\* the rows are sorted ascending by a column in which one value is null and
\* two are present and differ, and the chronological order is another one
C23_Witness ==
    LET shown == spreadsheetData(ui)
        key == ui.sortConfig.key
    IN  /\ ui.sortConfig.direction = "asc"
        /\ key = "cmp"
        /\ Len(shown) = MaxTrades
        /\ shown # mainInitialData(ui)
        /\ ValueIsNull(SortValue(shown[Len(shown)], key), key)
        /\ ~ValueIsNull(SortValue(shown[1], key), key)

\* the rows are sorted by ticker and a lower-case ticker stands before an
\* upper-case one that follows it without case
C23_CaseWitness ==
    LET shown == spreadsheetData(ui)
    IN  /\ ui.sortConfig = [key |-> "stock", direction |-> "asc"]
        /\ \E i, j \in DOMAIN shown : i < j /\ shown[i].stock = "es" /\ shown[j].stock = "INFY"

\* ------------------------------------------------------------------ close quantity properties

\* the close that slot p completes in this step created a child with a
\* quantity above 0 and left its target deleted or with a smaller quantity
\* that is still above 0
SellsPositive(p) ==
    LET id == h[p].id
    IN  /\ h[p].sellQty > 0
        /\ h[p].closedTrade.quantity > 0
        /\ id \in DOMAIN store' =>
              /\ store'[id].quantity < h[p].originalQty
              /\ store'[id].quantity > 0

\* C24: every close that is accepted sells a quantity above 0: its child has
\* a quantity above 0 and the closed row is deleted or keeps a smaller
\* quantity that is still above 0.
C24_PositiveCloseQuantity ==
    [][\A p \in Procs : CloseCompletes(p) => SellsPositive(p)]_vars

\* C24 for the accepted closes whose body carries a quantity above 0
C24_PositiveBodiesSellPositive ==
    [][\A p \in Procs : (CloseCompletes(p) /\ h[p].sellQty > 0) => SellsPositive(p)]_vars

\* ------------------------------------------------------------------ campaign fees properties

\* the sum of the fees stored on the children of r
ChildFees(s, r) ==
    LET children == ChildrenOf(StorageGetTrades(s), r)
    IN  SumOver(children, [c \in children |-> Number(c.fees)])

\* the close slot p completes added to the children of its root the fees of
\* its body, and the root's own fees if it is the root's first close
ChargesOnce(p) ==
    LET id == h[p].id
        pre == h[p].pre
        first == ChildrenOf(StorageGetTrades(pre), id) = {}
    IN  ChildFees(store', id) =
            ChildFees(pre, id) + CloseFees(h[p].body)
                + (IF first THEN Number(h[p].originalTrade.fees) ELSE 0)

\* C25: over the accepted closes of one root with entry fees F and body fees
\* a1..an, the fees stored on the children sum to F + a1 + ... + an: the
\* first close adds F + a1 to the sum, every later close adds its own ai.
C25_FeesOncePerCampaign ==
    [][\A p \in Procs :
          (CloseCompletes(p) /\ h[p].id \in DOMAIN orig) => ChargesOnce(p)]_vars

\* C25 for the first close of each root
C25_FirstCloseChargesOnce ==
    [][\A p \in Procs :
          (/\ CloseCompletes(p)
           /\ h[p].id \in DOMAIN orig
           /\ ChildrenOf(StorageGetTrades(h[p].pre), h[p].id) = {}) => ChargesOnce(p)]_vars

\* ------------------------------------------------------------------ equity curve properties

\* The statistics in lastResp are consistent with the per-trade net P&L net:
\* one sample per closed row in ascending entry date order, each adding its
\* row's net P&L to the sample before it, the last one equal to netPnL, the
\* strategy breakdown summing to netPnL, and netPnL 0 with no closed row.
\* Amounts of the response are in hundredths.
CurveConsistent(net) ==
    LET body == lastResp.body
        curve == body.equityCurve
        n == Len(curve)
        names == DOMAIN body.strategyBreakdown
    IN  /\ n = Cardinality(ClosedRows)
        /\ \E trade \in [1..n -> ClosedRows] :
              /\ \A i, j \in 1..n : i # j => trade[i] # trade[j]
              /\ \A k \in 1..n :
                    /\ curve[k].date = trade[k].entryDate
                    /\ k > 1 => curve[k - 1].date <= curve[k].date
                    /\ curve[k].cumulativePnL =
                          (IF k = 1 THEN 0 ELSE curve[k - 1].cumulativePnL)
                              + 100 * net[trade[k]]
        /\ body.netPnL = IF n = 0 THEN 0 ELSE curve[n].cumulativePnL
        /\ SumOver(names, body.strategyBreakdown) = body.netPnL

\* C26: the stats response has one equityCurve sample per CLOSED trade in
\* ascending entryDate order, each sample's cumulativePnL is the previous one
\* (0 at the start) plus that trade's net P&L, the last sample equals netPnL,
\* the strategyBreakdown values sum to netPnL, and without closed trades the
\* curve is empty and netPnL is 0.
C26_EquityCurveConsistent == StatsAnswered => CurveConsistent(SideNets)

\* C26 over the per-trade P&L the statistics themselves compute
C26_CurveConsistentOfStatsPnl == StatsAnswered => CurveConsistent(StatsPnls)

\* ------------------------------------------------------------------ drawdown bound properties

\* the cumulativePnL samples of the statistics in lastResp
CurvePoints ==
    {lastResp.body.equityCurve[k].cumulativePnL : k \in DOMAIN lastResp.body.equityCurve}

\* C27: maxDrawdown is at least 0 and at most 100, and it is 0 whenever the
\* cumulative closed-trade P&L never rises above 0.  (maxDrawdown is carried
\* in hundredths of a percent.)
C27_DrawdownWithin100 ==
    StatsAnswered =>
        /\ lastResp.body.maxDrawdown >= 0
        /\ lastResp.body.maxDrawdown <= 10000
        /\ (\A point \in CurvePoints : point <= 0) => lastResp.body.maxDrawdown = 0

\* C27, amended: maxDrawdown is at least 0, it is 0 whenever no sample of the
\* curve is above 0, and it is at most 100 whenever no sample is below 0.
C27_DrawdownBounds ==
    StatsAnswered =>
        /\ lastResp.body.maxDrawdown >= 0
        /\ (\A point \in CurvePoints : point <= 0) => lastResp.body.maxDrawdown = 0
        /\ (\A point \in CurvePoints : point >= 0) => lastResp.body.maxDrawdown <= 10000

\* the statistics answered for a curve that rose above 0, declined and never
\* fell below 0: a drawdown above 0 that the bound of 100 applies to
C27_Witness ==
    /\ StatsAnswered
    /\ Len(lastResp.body.equityCurve) > 1
    /\ \A point \in CurvePoints : point >= 0
    /\ lastResp.body.maxDrawdown > 0

\* ------------------------------------------------------------------ reset token properties
\* the token of a reset request could still reset the password of that address
LiveToken(a, email, token) ==
    /\ token \in DOMAIN a.tokens
    /\ ~a.tokens[token].dead
    /\ a.now < a.tokens[token].expires
    /\ a.users[a.tokens[token].user].email = email

\* C28: a reset token is accepted at most once: a reset request is answered
\* with success only for a token that no reset request has succeeded with.
C28_TokenAcceptedOnce ==
    [][\A r \in ResetCalls :
          ResetUpdate(r)
          => ~auth.tokens[auth.reset[r].token].used]_vars

\* a reset request that arrives with a token that is used, superseded, older
\* than a change of the password, expired or of another address is refused and
\* changes no user
C28_LateRequestsRejected ==
    [][\A r \in ResetCalls, email \in Emails, token \in 1..MaxTokens, newPassword \in Passwords :
          (ResetLookup(r, email, token, newPassword) /\ ~LiveToken(auth, email, token))
          => /\ lastResp'.op = "reset"
             /\ lastResp'.status = 400
             /\ auth' = auth]_vars

\* a token that a reset has used was presented again for its user and refused
C28_ReuseRefused ==
    /\ lastResp.op = "reset"
    /\ lastResp.status = 400
    /\ lastResp.body.message = "Invalid or expired reset token."
    /\ lastResp.id.token \in DOMAIN auth.tokens
    /\ auth.tokens[lastResp.id.token].used
    /\ auth.users[auth.tokens[lastResp.id.token].user].email = lastResp.id.email

\* ------------------------------------------------------------------ approval gate properties
\* C29: a step that creates a user creates it with isApproved = FALSE and
\* changes no session; a step that gives a client a session gives it for a
\* user whose isApproved was TRUE; and no session belongs to a user whose
\* isApproved is FALSE.
C29_ApprovalGate ==
    /\ [][Len(auth'.users) > Len(auth.users)
             => /\ ~auth'.users[Len(auth'.users)].isApproved
                /\ auth'.sessions = auth.sessions]_vars
    /\ [][\A c \in Clients :
             (auth'.sessions[c] # auth.sessions[c] /\ auth'.sessions[c] # Null)
             => /\ auth'.sessions[c] \in DOMAIN auth.users
                /\ auth.users[auth'.sessions[c]].isApproved]_vars
    /\ [](\A c \in Clients :
             auth.sessions[c] # Null => auth.users[auth.sessions[c]].isApproved)

\* a login with the correct password of a pending account was just refused,
\* while another account is logged in
C29_Witness ==
    /\ lastResp.op = "login"
    /\ lastResp.status = 401
    /\ LET user == getUserByEmail(auth.users, lastResp.id.email)
       IN  /\ user # NoUser
           /\ comparePasswords(lastResp.id.password, user.password)
           /\ ~user.isApproved
    /\ \E c \in Clients : auth.sessions[c] # Null

\* ------------------------------------------------------------------ client session properties
\* the browser's cached current user is the user of the browser's session
CacheFollowsSession(a) ==
    /\ a.cache # NoData
         => /\ a.sessions[Browser] # Null
            /\ "id" \in DOMAIN a.cache
            /\ a.cache.id = a.sessions[Browser]
    /\ a.location = "/dashboard" => a.sessions[Browser] # Null

\* C30: the cached current user of the browser is non-null only when it is the
\* user the server has authenticated for the browser, and the dashboard is
\* shown only then.
C30_CacheFollowsSession == CacheFollowsSession(auth)

\* as long as the cache holds no answer of a registration, it follows the session
C30_CacheFollowsLoginAndLogout ==
    "message" \notin DOMAIN auth.cache => CacheFollowsSession(auth)


====
